---------------------------- MODULE Spec2Model ----------------------------
(***************************************************************************)
(* Telemetry pipeline of the homeserver: the sampling worker, the live     *)
(* broadcast fan-out, the persistence writer, the tiered store and the     *)
(* aggregation / retention scheduler.                                      *)
(*                                                                         *)
(* Every task is a state machine whose position is a pc variable; an       *)
(* action is the code a task runs between two suspension points (.await).  *)
(* tokio::select! is a nondeterministic choice among its ready branches.   *)
(***************************************************************************)
EXTENDS Integers, Sequences, FiniteSets, TLC

(***************************************************************************)
(* Bounds of the model.                                                    *)
(***************************************************************************)
\* snapshots the worker assembles in the pipeline specification
MaxSnapshotsPipeline == 4
\* snapshots the worker assembles in the backpressure specification (the
\* persistence queue holds 32 snapshots, so more than 32 are needed to fill it)
MaxSnapshotsBackpressure == 34
\* snapshots the worker assembles in the broadcast specification
MaxSnapshotsBroadcast == 4
\* sampling ticks in which a probe may fail
MaxProbeFailures == 1
\* largest flush_rate drawn for the configuration
MaxFlushRate == 2
\* largest broadcast_capacity drawn for the configuration
MaxBroadcastCapacity == 3
\* concurrent /ws/system connections
MaxSubscribers == 2
\* connections in the specification of lagging receivers
MaxLaggingSubscribers == 1
\* snapshots in the specification of the connection counter
MaxSnapshotsConnections == 2
\* snapshots in the specification of the scheduler
MaxSnapshotsSched == 1
MaxSnapshotsAgg == 2
\* snapshots in the specification of the repeated aggregation pass
MaxSnapshotsRerun == 1
MaxClockHours == 2
MaxSnapshotsHistory == 2
MaxHistoryHours == 2
MaxSnapshotsDuplicates == 1
MaxSnapshotsStore == 3
MaxByte == 2
MaxPayloadLen == 2
MaxItems == 1
MaxBucketRows == 2
MaxMinuteRows == 2
\* snapshots, and hours of the clock, in the specifications of the roll-up
\* and of the tick after a failed tick
MaxSnapshotsRollup == 2
MaxRollupHours == 3
\* containers on the host, and stream tasks spawned while the program runs
MaxContainers == 1
MaxStreamTasks == 3
\* raw snapshots handed to downsample_snapshots
MaxDownsampleRows == 3
\* rows of each table handed to a delete
MaxDeleteRows == 2
\* rows handed to aggregate_snapshots and to aggregate_aggregated_snapshots
\* when they are called on their own
MaxAggregateRows == 2
\* snapshots of a minute bucket in the specification of the container groups
MaxContainerRows == 2
MaxDuplicateTicks == 4

(***************************************************************************)
(* Program constants and configuration values.                             *)
(***************************************************************************)
\* worker.rs:18, the floor of the persistence queue's capacity
MinWriterChannelCapacity == 32
\* database.retention_days of the configuration (config.rs:47 default)
RetentionDays == 3
DefaultFlushIntervalSecs == 30
DefaultAggregationIntervalSecs == 3600
DefaultRawRetentionHours == 1
DefaultMinuteRetentionHours == 24
DefaultVacuumIntervalSecs == 86400
MS_PER_MINUTE == 60000
MS_PER_5_MINUTES == 300000
RESOLUTION_1MIN == 60
RESOLUTION_5MIN == 300

VARIABLES
    config,        \* the validated configuration and the environment, fixed at start
    now,           \* wall clock, ms since the epoch
    \* sampling worker (worker.rs spawn)
    workerPc,      \* "select" | "send" | "done"
    pending,       \* the snapshot the worker is sending to the queue, or NoSnapshot
    nProbeFailures, \* sampling ticks in which a probe returned an error
    shutdownSent,  \* the oneshot shutdown signal has been sent
    \* persistence queue (mpsc) and writer (worker.rs spawn_history_writer)
    queue,         \* snapshots in the bounded mpsc channel
    writeTxOpen,   \* the worker's mpsc sender is alive
    enqLog,        \* ids enqueued on the persistence queue, in order
    writerPc,      \* "select" | "done"
    buffer,        \* the writer's in-memory buffer
    lastFlush,     \* result of the writer's last flush_buffer call
    savedTotal,    \* snapshots_saved_total
    commitFailed,  \* some store transaction of the writer has failed
    \* store (history_repo)
    rawTable,      \* system_history rows in insertion order
    \* broadcast channel (tokio::sync::broadcast)
    bcTail,        \* number of values the channel accepted (next position)
    bcRing,        \* the values the channel retains, oldest first
    assembled,     \* ids of the snapshots the worker assembled, in order
    bcastLog,      \* ids handed to the broadcast channel, in order
    lastPublish,   \* result of the last broadcast publish: "none" | "ok" | "no_receivers"
    \* /ws/system subscribers (routes/ws.rs)
    subPc,         \* per connection slot: "idle" | "welcome" | "loop"
    subNext,       \* per connection: the receiver's next position
    subLog,        \* per connection: what the task observed, in order
    connCount,     \* ws_system_connections
    \* the history writer's flush timer
    nextFlushAt,   \* deadline of flush_tick (ms)
    \* aggregation scheduler (aggregation_worker.rs) and the aggregated table
    aggTable,      \* rows of system_history_aggregated, in insertion order
    aggPc,         \* the await run_one_tick is at: "idle" | "a_min" | "a_fetch" | ...
    aggNowMs,      \* now_ms of the tick in progress
    aggBucketStart,\* bucket_start of the loop in progress
    aggFetched,    \* rows the last range query of the tick returned
    lastTick,      \* how the last run_one_tick returned: "none" | "ok" | "failed"
    nextAggAt,     \* deadline of agg_interval (ms)
    vacuumRunning, \* repo.vacuum() is being awaited
    vacuumsDone,   \* VACUUM statements the store ran to completion
    vacPc,         \* vacuum_scheduler: "sleep" | "send"
    vacChan,       \* messages in the vacuum channel
    vacWakeAt,     \* end of the vacuum_scheduler's sleep (ms)
    \* store (history_repo): the system_info table
    sysInfoTable,  \* rows of system_info, in insertion order
    \* GET /api/history (routes/http.rs api_history_handler)
    histPc,        \* "idle" | "agg" (get_history awaits the aggregated read) | "responded"
    histReq,       \* from_ts, to_ts, resolution_secs, raw_cutoff_ts of the request
    histRaw,       \* the raw part get_history holds
    histOut,       \* body of the response
    histStatus,    \* status of the response, 0 while there is none
    histReads,     \* store queries made for the request
    \* a call of one of the program's functions on its own
    fnPc,          \* "none", or how far the call has got
    fnArgs,        \* the arguments
    fnResult,      \* what the call has produced so far
    \* container stats streams (docker_repo)
    dockerRunning, \* ids of the containers the Docker daemon lists as running
    activeStreams, \* active_streams: container id -> stream task, 0 for no entry
    liveStats,     \* live_stats: the ids that have an entry
    streamTasks,   \* the spawned stream tasks: container id, position, abort flag
    recPc,         \* the await list_running_and_refresh_stats is at, or "idle"
    recLocals,     \* its running_set, to_add, to_remove and new_handles
    lastContainers \* ids of the ContainerStats the last call returned

workerVars == <<workerPc, pending, nProbeFailures, shutdownSent>>
queueVars == <<queue, writeTxOpen, enqLog>>
writerVars == <<writerPc, buffer, lastFlush, savedTotal, commitFailed>>
storeVars == <<rawTable>>
channelVars == <<bcTail, bcRing, assembled, bcastLog, lastPublish>>
subVars == <<subPc, subNext, subLog, connCount>>
histVars == <<histPc, histReq, histRaw, histOut, histStatus, histReads>>
fnVars == <<fnPc, fnArgs, fnResult>>
registryVars == <<activeStreams, liveStats, streamTasks>>
recVars == <<recPc, recLocals, lastContainers>>
dockerVars == <<dockerRunning, registryVars, recVars>>
tickVars == <<aggPc, aggNowMs, aggBucketStart, aggFetched, lastTick, nextAggAt>>
vacuumVars == <<vacuumRunning, vacuumsDone, vacPc, vacChan, vacWakeAt>>
schedVars == <<aggTable, tickVars, vacuumVars>>
vars == <<config, now, nextFlushAt, schedVars, workerVars, queueVars, writerVars,
          storeVars, channelVars, subVars, sysInfoTable, histVars, fnVars, dockerVars>>

NoSnapshot == [id |-> 0, timestamp |-> 0]
NoRequest == [from_ts |-> 0, to_ts |-> 0, resolution_secs |-> 0, raw_cutoff_ts |-> 0]

\* the SystemInfo this process collected at start, and the one a previous run of
\* the program left in the database file
CurrentSystemInfo == "this_run"
PreviousSystemInfo == "previous_run"
Subs == 1..MaxSubscribers

Max(a, b) == IF a >= b THEN a ELSE b
Min(a, b) == IF a <= b THEN a ELSE b
LastN(s, n) == IF Len(s) <= n THEN s ELSE SubSeq(s, Len(s) - n + 1, Len(s))

\* the outcomes of a store call: it may fail where the environment has store faults
StoreOutcomes == IF config.storeFaults THEN BOOLEAN ELSE {TRUE}

(***************************************************************************)
(* worker.rs: queue capacity.                                              *)
(***************************************************************************)
WriterChannelCapacity(flush_rate) == Max(flush_rate * 2, MinWriterChannelCapacity)

(***************************************************************************)
(* tokio::sync::broadcast as the program uses it.  The channel keeps the   *)
(* last ChannelCapacity values; a send with no receiver is refused and     *)
(* stores nothing; a receiver whose next value was overwritten gets        *)
(* Lagged(missed) and is moved to the oldest value still retained.         *)
(***************************************************************************)
RECURSIVE NextPowerOfTwo(_)
NextPowerOfTwo(n) == IF n <= 1 THEN 1 ELSE 2 * NextPowerOfTwo((n + 1) \div 2)

\* broadcast::channel(capacity) allocates capacity.next_power_of_two() slots
ChannelCapacity == NextPowerOfTwo(config.broadcast_capacity)

\* receivers alive: the one broadcast::channel returned, when its caller kept
\* it, and one per connection between tx.subscribe() and the end of its task
RxCount ==
    (IF config.rxKept THEN 1 ELSE 0) + Cardinality({s \in Subs : subPc[s] # "idle"})

\* tx.send(v) is Ok iff a receiver exists
BroadcastSendOk == RxCount > 0

BroadcastRingAfterSend(v) ==
    IF BroadcastSendOk THEN LastN(Append(bcRing, v), ChannelCapacity) ELSE bcRing

BroadcastTailAfterSend == IF BroadcastSendOk THEN bcTail + 1 ELSE bcTail

\* position of the oldest value the channel still retains
OldestRetained == Max(bcTail - ChannelCapacity, 0)

\* fault variant: a receiver that resumes at the newest value after a lag
BroadcastRecvSkipToNewest(next) ==
    IF next < OldestRetained
    THEN [kind |-> "lagged", n |-> OldestRetained - next, next |-> bcTail - 1]
    ELSE [kind |-> "snapshot",
          n |-> bcRing[next - (bcTail - Len(bcRing)) + 1].id,
          next |-> next + 1]

\* rx.recv() of a receiver at position next, when a value was sent since:
\* Lagged(missed) if its next value is gone, else that value
BroadcastRecv(next) ==
    IF next < OldestRetained
    THEN [kind |-> "lagged", n |-> OldestRetained - next, next |-> OldestRetained]
    ELSE [kind |-> "snapshot",
          n |-> bcRing[next - (bcTail - Len(bcRing)) + 1].id,
          next |-> next + 1]

(***************************************************************************)
(* history_repo: the raw table.                                            *)
(***************************************************************************)
\* fault variant: a plain INSERT into a table without the primary key
InsertSystemInfo(info, data) == Append(info, [id |-> 1, data |-> data])

\* INSERT OR REPLACE INTO system_info (id, data) VALUES (1, $1): the row whose
\* primary key is 1 is removed, then the new row is inserted
UpsertSystemInfo(info, data) ==
    LET Other(r) == r.id # 1 IN
    Append(SelectSeq(info, Other), [id |-> 1, data |-> data])

\* the steps of save_snapshots for a batch of n snapshots: begin, the
\* system_info upsert, n inserts, commit
SaveSteps(batch) == Len(batch) + 3

\* what the transaction has written after okSteps steps succeeded
TxWorkingCopy(raw, info, batch, system_info, okSteps) ==
    [raw |-> raw \o SubSeq(batch, 1, Min(Len(batch), Max(okSteps - 2, 0))),
     info |-> IF okSteps >= 2 THEN UpsertSystemInfo(info, system_info) ELSE info]

\* fault variant: statements that run outside a transaction, each visible as
\* soon as it is executed
TxAutocommit(raw, info, batch, system_info, okSteps) ==
    TxWorkingCopy(raw, info, batch, system_info, okSteps)

\* the tables other connections see once the call returned: the working copy
\* after commit; before it `?` drops tx, which rolls the transaction back
TxVisible(raw, info, batch, system_info, okSteps) ==
    IF okSteps = SaveSteps(batch)
    THEN TxWorkingCopy(raw, info, batch, system_info, okSteps)
    ELSE [raw |-> raw, info |-> info]

\* fault variant: save_snapshots without the early return on an empty batch
SaveSnapshotsWithoutEmptyCheck(raw, info, batch, system_info, okSteps) ==
    LET t == TxVisible(raw, info, batch, system_info, okSteps) IN
    [raw |-> t.raw, info |-> t.info, ok |-> okSteps = SaveSteps(batch)]

\* save_snapshots: okSteps steps succeed, the next one (if any) returns Err.
\* An empty batch returns Ok before begin().
SaveSnapshots(raw, info, batch, system_info, okSteps) ==
    IF batch = <<>>
    THEN [raw |-> raw, info |-> info, ok |-> TRUE]
    ELSE LET t == TxVisible(raw, info, batch, system_info, okSteps) IN
         [raw |-> t.raw, info |-> t.info, ok |-> okSteps = SaveSteps(batch)]

RetentionMs == config.retention_days * 24 * 60 * 60 * 1000

\* prune_old_data: DELETE FROM system_history WHERE created_at < now - retention
PruneOldData(raw, now_ms) ==
    LET Keep(r) == ~(r.timestamp < now_ms - RetentionMs) IN SelectSeq(raw, Keep)

(***************************************************************************)
(* worker.rs: flush_buffer.                                                *)
(***************************************************************************)
\* fault variant: a writer that gives up the oldest snapshot of a failed batch
BufferWithoutHeadOnFailure(buf) == Tail(buf)

\* fault variant: a writer that drops the batch when the commit fails
BufferClearedOnFailure(buf) == <<>>

\* the buffer after save_snapshots returned an error: `?` returns before clear()
BufferAfterFailedFlush(buf) == buf

\* fault variant: a counter that counts flushes, not snapshots
SavedAfterFlushByOne(saved, n) == saved + 1

\* snapshots_saved_total.fetch_add(n)
SavedAfterFlush(saved, n) == saved + n

\* okSteps: the steps of the save_snapshots transaction that succeed
FlushBuffer(buf, raw, info, saved, okSteps) ==
    IF buf = <<>>
    THEN [buffer |-> buf, raw |-> raw, info |-> info, saved |-> saved,
          result |-> "empty"]
    ELSE LET r == SaveSnapshots(raw, info, buf, CurrentSystemInfo, okSteps) IN
         IF r.ok
         THEN [buffer |-> <<>>, raw |-> r.raw, info |-> r.info,
               saved |-> SavedAfterFlush(saved, Len(buf)), result |-> "ok"]
         ELSE [buffer |-> BufferAfterFailedFlush(buf), raw |-> r.raw, info |-> r.info,
               saved |-> saved, result |-> "failed"]

\* the transactions a call can run: commit, or an error at any step
SaveOutcomes(buf, storeOk) ==
    IF storeOk THEN {SaveSteps(buf)} ELSE 0..(SaveSteps(buf) - 1)

\* the writer calls flush_buffer on buf and logs a failure
WriterFlush(buf, storeOk) ==
    \E okSteps \in SaveOutcomes(buf, storeOk) :
        LET r == FlushBuffer(buf, rawTable, sysInfoTable, savedTotal, okSteps) IN
        /\ buffer' = r.buffer
        /\ rawTable' = r.raw
        /\ sysInfoTable' = r.info
        /\ savedTotal' = r.saved
        /\ lastFlush' = r.result
        /\ commitFailed' = (commitFailed \/ r.result = "failed")

\* HistoryRepo::save_snapshots(&[], info) called on the repository, whatever
\* the store would answer to a statement
SaveSnapshotsEmpty(storeOk) ==
    /\ fnPc = "none"
    /\ \E okSteps \in SaveOutcomes(<<>>, storeOk) :
           LET r == SaveSnapshots(rawTable, sysInfoTable, <<>>, CurrentSystemInfo, okSteps) IN
           /\ rawTable' = r.raw
           /\ sysInfoTable' = r.info
           /\ fnResult' = <<r.ok>>
    /\ fnPc' = "saved_empty"
    /\ UNCHANGED <<config, dockerVars, fnArgs, histVars, now, nextFlushAt, schedVars, workerVars, queueVars,
                   writerVars, savedTotal, channelVars, subVars>>

(***************************************************************************)
(* worker.rs: the sampling worker.                                         *)
(***************************************************************************)
Probes == {"cpu", "ram", "storage", "network", "system"}
ProbeOutcomes == {"ok"} \cup Probes

\* fault variant: a worker that publishes although the system probe failed
TickPublishesDespiteSystemProbe(outcome) == outcome \in {"ok", "system"}

\* a tick publishes only when every probe returned Ok; a failed probe `continue`s
TickPublishes(outcome) == outcome = "ok"

\* fault variant: an unbounded queue
QueueUnbounded(q) == TRUE

\* write_tx.send(..).await completes when the queue has a free slot
QueueHasRoom(q) == Len(q) < WriterChannelCapacity(config.flush_rate)

\* fault variant: a worker that persists only what the broadcast accepted
PersistOnlyIfPublished(publishOk) == publishOk

\* after tx.send the worker goes on to write_tx.send whatever tx.send returned
\* (an Err is only logged)
PersistAfterPublish(publishOk) == TRUE

\* the tick branch: timestamp, probes, assemble, tx.send, up to write_tx.send(..).await
WorkerTick(outcome) ==
    /\ workerPc = "select"
    /\ IF outcome = "ok"
       THEN UNCHANGED nProbeFailures
       ELSE /\ nProbeFailures < config.maxProbeFailures
            /\ nProbeFailures' = nProbeFailures + 1
    /\ IF TickPublishes(outcome)
       THEN LET snapshot == [id |-> Len(assembled) + 1, timestamp |-> now] IN
            /\ Len(assembled) < config.maxSnapshots
            /\ assembled' = Append(assembled, snapshot.id)
            /\ bcRing' = BroadcastRingAfterSend(snapshot)
            /\ bcTail' = BroadcastTailAfterSend
            /\ bcastLog' = Append(bcastLog, snapshot.id)
            /\ lastPublish' = IF BroadcastSendOk THEN "ok" ELSE "no_receivers"
            /\ IF PersistAfterPublish(BroadcastSendOk)
               THEN pending' = snapshot /\ workerPc' = "send"
               ELSE UNCHANGED <<pending, workerPc>>
       ELSE UNCHANGED <<channelVars, pending, workerPc>>
    /\ UNCHANGED <<config, dockerVars, fnVars, histVars, sysInfoTable, now, nextFlushAt, schedVars, shutdownSent, queueVars, writerVars, storeVars,
                   subVars>>

\* write_tx.send(snapshot).await returns: enqueued, or refused by a closed channel
WorkerEnqueue ==
    /\ workerPc = "send"
    /\ IF writerPc = "done"
       THEN UNCHANGED <<queue, enqLog>>
       ELSE /\ QueueHasRoom(queue)
            /\ queue' = Append(queue, pending)
            /\ enqLog' = Append(enqLog, pending.id)
    /\ pending' = NoSnapshot
    /\ workerPc' = "select"
    /\ UNCHANGED <<config, dockerVars, fnVars, histVars, sysInfoTable, now, nextFlushAt, schedVars, nProbeFailures, shutdownSent, writeTxOpen, writerVars,
                   storeVars, channelVars, subVars>>

\* the prune_tick branch
WorkerPrune(storeOk) ==
    /\ workerPc = "select"
    /\ rawTable' = IF storeOk THEN PruneOldData(rawTable, now) ELSE rawTable
    /\ UNCHANGED <<config, dockerVars, fnVars, histVars, sysInfoTable, now, nextFlushAt, schedVars, workerVars, queueVars, writerVars, channelVars,
                   subVars>>

\* the shutdown branch: break; the task ends and drops its mpsc sender
WorkerShutdown ==
    /\ workerPc = "select"
    /\ shutdownSent
    /\ workerPc' = "done"
    /\ writeTxOpen' = FALSE
    /\ UNCHANGED <<config, dockerVars, fnVars, histVars, sysInfoTable, now, nextFlushAt, schedVars, pending, nProbeFailures, shutdownSent, queue, enqLog,
                   writerVars, storeVars, channelVars, subVars>>

\* the owner of the oneshot sender signals shutdown
SendShutdown ==
    /\ ~shutdownSent
    /\ shutdownSent' = TRUE
    /\ UNCHANGED <<config, dockerVars, fnVars, histVars, sysInfoTable, now, nextFlushAt, schedVars, workerPc, pending, nProbeFailures, queueVars,
                   writerVars, storeVars, channelVars, subVars>>

(***************************************************************************)
(* worker.rs: the persistence writer.                                      *)
(***************************************************************************)
\* tokio::time::interval with MissedTickBehavior::Skip, started at 0: the
\* deadline after a tick taken at now_ms is the next multiple of the period
NextMultipleAfter(now_ms, period) == ((now_ms \div period) + 1) * period

FlushIntervalMs == config.flush_interval_secs * 1000

\* flush_tick.tick() is ready; where the environment keeps no clock the timer
\* may fire at any moment
FlushTickDue == config.timed => now >= nextFlushAt

\* fault variant: a trigger that waits for one snapshot more
FlushDueAboveRate(buf) == Len(buf) > config.flush_rate

\* count-based trigger
FlushDue(buf) == Len(buf) >= config.flush_rate

\* write_rx.recv() returned Some(snapshot)
WriterRecv(storeOk) ==
    /\ writerPc = "select"
    /\ queue # <<>>
    /\ queue' = Tail(queue)
    /\ LET buf == Append(buffer, Head(queue)) IN
       IF FlushDue(buf)
       THEN WriterFlush(buf, storeOk)
       ELSE /\ buffer' = buf
            /\ UNCHANGED <<rawTable, sysInfoTable, savedTotal, lastFlush, commitFailed>>
    /\ UNCHANGED <<config, dockerVars, fnVars, histVars, now, nextFlushAt, schedVars, workerVars, writeTxOpen, enqLog, writerPc,
                   channelVars, subVars>>

\* flush_tick fired
WriterFlushTick(storeOk) ==
    /\ writerPc = "select"
    /\ FlushTickDue
    /\ WriterFlush(buffer, storeOk)
    /\ nextFlushAt' = IF config.timed
                      THEN NextMultipleAfter(now, FlushIntervalMs)
                      ELSE nextFlushAt
    /\ UNCHANGED <<config, dockerVars, fnVars, histVars, now, schedVars, workerVars, queueVars, writerPc,
                   channelVars, subVars>>

\* fault variant: a writer that ends without the final flush
WriterClosedNoFinalFlush(storeOk) ==
    /\ writerPc = "select"
    /\ queue = <<>>
    /\ ~writeTxOpen
    /\ writerPc' = "done"
    /\ lastFlush' = "none"
    /\ UNCHANGED <<buffer, rawTable, savedTotal, commitFailed>>
    /\ UNCHANGED <<config, dockerVars, fnVars, histVars, sysInfoTable, now, nextFlushAt, schedVars, workerVars, queueVars, channelVars, subVars>>

\* write_rx.recv() returned None: break, final flush, the task ends
WriterClosed(storeOk) ==
    /\ writerPc = "select"
    /\ queue = <<>>
    /\ ~writeTxOpen
    /\ WriterFlush(buffer, storeOk)
    /\ writerPc' = "done"
    /\ UNCHANGED <<config, dockerVars, fnVars, histVars, now, nextFlushAt, schedVars, workerVars, queueVars, channelVars, subVars>>

(***************************************************************************)
(* routes/ws.rs: /ws/system.                                               *)
(***************************************************************************)
\* conn_count.fetch_add(1)
FetchAdd(c) == c + 1

\* WsSystemGuard::drop: conn_count.fetch_sub(1), which wraps below zero
\* (usize::MAX is written -1 here)
FetchSub(c) == IF c = 0 THEN -1 ELSE c - 1

\* fault variant: an exit path that does not release the counter
SubExitLeaking(s) ==
    /\ subPc' = [subPc EXCEPT ![s] = "idle"]
    /\ connCount' = connCount
    /\ subLog' = [subLog EXCEPT ![s] = <<>>]

\* a return or break of stream_system: _guard and the receiver are dropped
SubExit(s) ==
    /\ subPc' = [subPc EXCEPT ![s] = "idle"]
    /\ connCount' = FetchSub(connCount)
    /\ subLog' = [subLog EXCEPT ![s] = <<>>]

\* on_upgrade: tx.subscribe(), then stream_system up to the welcome send
SubConnect(s) ==
    /\ subPc[s] = "idle"
    /\ s <= config.maxSubscribers
    /\ subPc' = [subPc EXCEPT ![s] = "welcome"]
    /\ subNext' = [subNext EXCEPT ![s] = bcTail]
    /\ connCount' = FetchAdd(connCount)
    /\ subLog' = [subLog EXCEPT ![s] = <<>>]
    /\ UNCHANGED <<config, dockerVars, fnVars, histVars, sysInfoTable, now, nextFlushAt, schedVars, workerVars, queueVars, writerVars, storeVars,
                   channelVars>>

\* fault variant: a stream that enters its loop whatever the welcome send returned
SubWelcomeIgnoringSendResult(s, sent) ==
    /\ subPc[s] = "welcome"
    /\ subPc' = [subPc EXCEPT ![s] = "loop"]
    /\ subLog' = [subLog EXCEPT ![s] = IF sent THEN <<[kind |-> "info", n |-> 0]>> ELSE <<>>]
    /\ UNCHANGED connCount
    /\ UNCHANGED <<config, dockerVars, fnVars, histVars, sysInfoTable, now, nextFlushAt, schedVars, workerVars, queueVars, writerVars, storeVars,
                   channelVars, subNext>>

\* the welcome send returned: sent, or failed / timed out (return Ok(()))
SubWelcome(s, sent) ==
    /\ subPc[s] = "welcome"
    /\ IF sent
       THEN /\ subPc' = [subPc EXCEPT ![s] = "loop"]
            /\ subLog' = [subLog EXCEPT ![s] = <<[kind |-> "info", n |-> 0]>>]
            /\ UNCHANGED connCount
       ELSE SubExit(s)
    /\ UNCHANGED <<config, dockerVars, fnVars, histVars, sysInfoTable, now, nextFlushAt, schedVars, workerVars, queueVars, writerVars, storeVars,
                   channelVars, subNext>>

SendOutcomes == {"sent", "send_failed", "serialize_error"}

\* fault variant: a loop that treats a lag like a failed send
RecvStopsOnLag(kind, outcome) == kind # "lagged" /\ outcome = "sent"

\* the loop goes on after Lagged (logged only) and after a snapshot that was
\* sent; a serialization error returns, a failed or timed out send breaks
RecvContinues(kind, outcome) == kind = "lagged" \/ outcome = "sent"

\* the rx.recv() branch: a snapshot is serialized and sent, a lag is logged
SubRecv(s, outcome) ==
    /\ subPc[s] = "loop"
    /\ subNext[s] < bcTail
    /\ LET r == BroadcastRecv(subNext[s]) IN
       /\ subNext' = [subNext EXCEPT ![s] = r.next]
       /\ IF RecvContinues(r.kind, outcome)
          THEN /\ subLog' = [subLog EXCEPT ![s] = Append(@, [kind |-> r.kind, n |-> r.n])]
               /\ UNCHANGED <<subPc, connCount>>
          ELSE SubExit(s)
    /\ UNCHANGED <<config, dockerVars, fnVars, histVars, sysInfoTable, now, nextFlushAt, schedVars, workerVars, queueVars, writerVars, storeVars,
                   channelVars>>

\* the ping branch: a failed or timed out ping breaks the loop
SubPing(s, sent) ==
    /\ subPc[s] = "loop"
    /\ IF sent THEN UNCHANGED <<subPc, connCount, subLog>> ELSE SubExit(s)
    /\ UNCHANGED <<config, dockerVars, fnVars, histVars, sysInfoTable, now, nextFlushAt, schedVars, workerVars, queueVars, writerVars, storeVars,
                   channelVars, subNext>>

(***************************************************************************)
(* history_repo: range queries and deletes on the two tables.              *)
(***************************************************************************)
None == [some |-> FALSE, value |-> 0]
Some(v) == [some |-> TRUE, value |-> v]

RECURSIVE SeqMin(_)
SeqMin(seq) ==
    IF Len(seq) = 1 THEN Head(seq) ELSE Min(Head(seq), SeqMin(Tail(seq)))

\* get_min_raw_created_at_before: SELECT MIN(created_at) .. WHERE created_at < cutoff
GetMinRawCreatedAtBefore(raw, cutoff_ts) ==
    LET Before(r) == r.timestamp < cutoff_ts
        rows == SelectSeq(raw, Before) IN
    IF rows = <<>> THEN None
    ELSE Some(SeqMin([i \in 1..Len(rows) |-> rows[i].timestamp]))

\* a stable sort of <<key, row>> pairs by key
RECURSIVE InsertPair(_, _)
InsertPair(sorted, p) ==
    IF sorted = <<>> THEN <<p>>
    ELSE IF sorted[Len(sorted)][1] <= p[1] THEN Append(sorted, p)
    ELSE Append(InsertPair(SubSeq(sorted, 1, Len(sorted) - 1), p), sorted[Len(sorted)])

RECURSIVE SortPairs(_)
SortPairs(pairs) ==
    IF pairs = <<>> THEN <<>>
    ELSE InsertPair(SortPairs(SubSeq(pairs, 1, Len(pairs) - 1)), pairs[Len(pairs)])

\* rows in ascending order of their keys (keys[i] is the key of rows[i]), rows
\* of equal key in their order in rows: ORDER BY .. ASC over the insertion
\* order, and Vec::sort_by_key
SortByKey(rows, keys) ==
    LET sorted == SortPairs([i \in 1..Len(rows) |-> <<keys[i], rows[i]>>]) IN
    [i \in 1..Len(sorted) |-> sorted[i][2]]

\* get_raw_snapshots_by_time_range: created_at >= from_ts AND created_at < to_ts
\* ORDER BY created_at ASC
GetRawSnapshotsByTimeRange(raw, from_ts, to_ts) ==
    LET InRange(r) == r.timestamp >= from_ts /\ r.timestamp < to_ts
        rows == SelectSeq(raw, InRange) IN
    SortByKey(rows, [i \in 1..Len(rows) |-> rows[i].timestamp])

\* fault variant: a delete that removes nothing
DeleteRawRangeKeepsRows(raw, from_ts, to_ts) == raw

\* fault variant: a delete whose upper bound is inclusive
DeleteRawRangeClosed(raw, from_ts, to_ts) ==
    LET Keep(r) == ~(r.timestamp >= from_ts /\ r.timestamp <= to_ts) IN
    SelectSeq(raw, Keep)

\* delete_raw_range: DELETE .. WHERE created_at >= from_ts AND created_at < to_ts
DeleteRawRange(raw, from_ts, to_ts) ==
    LET Keep(r) == ~(r.timestamp >= from_ts /\ r.timestamp < to_ts) IN
    SelectSeq(raw, Keep)

\* save_aggregated_snapshot: a plain INSERT
SaveAggregatedSnapshot(agg, row) == Append(agg, row)

\* get_min_aggregated_created_at_before
GetMinAggregatedCreatedAtBefore(agg, cutoff_ts, resolution_seconds) ==
    LET Before(r) == r.created_at < cutoff_ts /\ r.resolution_seconds = resolution_seconds
        rows == SelectSeq(agg, Before) IN
    IF rows = <<>> THEN None
    ELSE Some(SeqMin([i \in 1..Len(rows) |-> rows[i].created_at]))

\* get_aggregated_snapshots_by_time_range
GetAggregatedSnapshotsByTimeRange(agg, from_ts, to_ts, resolution_seconds) ==
    LET InRange(r) == /\ r.created_at >= from_ts
                      /\ r.created_at < to_ts
                      /\ r.resolution_seconds = resolution_seconds
        rows == SelectSeq(agg, InRange) IN
    SortByKey(rows, [i \in 1..Len(rows) |-> rows[i].created_at])

\* fault variant: a delete that removes nothing
DeleteAggregatedRangeKeepsRows(agg, from_ts, to_ts, resolution_seconds) == agg

\* delete_aggregated_range
DeleteAggregatedRange(agg, from_ts, to_ts, resolution_seconds) ==
    LET Keep(r) == ~(/\ r.created_at >= from_ts
                     /\ r.created_at < to_ts
                     /\ r.resolution_seconds = resolution_seconds) IN
    SelectSeq(agg, Keep)

\* prune_aggregated_old_data: DELETE .. WHERE created_at < now - retention
PruneAggregatedOldData(agg, now_ms) ==
    LET Keep(r) == ~(r.created_at < now_ms - RetentionMs) IN SelectSeq(agg, Keep)

(***************************************************************************)
(* history_repo/aggregation.rs: a bucket's row.  The row records the raw   *)
(* snapshots it was computed from.                                         *)
(***************************************************************************)
RECURSIVE Flatten(_)
Flatten(seqs) == IF seqs = <<>> THEN <<>> ELSE Head(seqs) \o Flatten(Tail(seqs))

\* aggregate_snapshots: None for an empty slice
AggregateSnapshots(snapshots, bucket_start_ts, resolution_seconds) ==
    IF snapshots = <<>> THEN None
    ELSE Some([created_at |-> bucket_start_ts,
               resolution_seconds |-> resolution_seconds,
               samples |-> [i \in 1..Len(snapshots) |-> snapshots[i].id]])

\* aggregate_aggregated_snapshots: None for an empty slice
AggregateAggregatedSnapshots(rows, bucket_start_ts, resolution_seconds) ==
    IF rows = <<>> THEN None
    ELSE Some([created_at |-> bucket_start_ts,
               resolution_seconds |-> resolution_seconds,
               samples |-> Flatten([i \in 1..Len(rows) |-> rows[i].samples])])

(***************************************************************************)
(* aggregation_worker.rs: run_one_tick, one action per await.              *)
(***************************************************************************)
CutoffRaw(now_ms) == now_ms - config.raw_retention_hours * 3600 * 1000
Cutoff1Min(now_ms) == now_ms - config.minute_retention_hours * 3600 * 1000

\* bucket_start_floor (timestamps are not negative)
BucketFloor(ts, width) == (ts \div width) * width

\* fault variant: the loop's select taken while a handler is still running
SelectAlwaysReady(pc, vacuuming) == TRUE

\* the run loop is at its select!: no handler is being awaited
RunLoopAtSelect(pc, vacuuming) == pc = "idle" /\ ~vacuuming

\* fault variant: a store error that does not end the pass
TickGoesOnAfterError(result) ==
    /\ aggPc' = IF result = "failed" THEN "b_min" ELSE "idle"
    /\ lastTick' = result
    /\ aggFetched' = <<>>

\* `?` on a store error, or the end of the pass
TickReturns(result) ==
    /\ aggPc' = "idle"
    /\ lastTick' = result
    /\ aggFetched' = <<>>

\* the while condition of the raw -> 1-min loop, and what follows it
AfterRawBucket(bucket_start) ==
    IF bucket_start + MS_PER_MINUTE <= CutoffRaw(aggNowMs) THEN "a_fetch" ELSE "b_min"

AfterMinuteBucket(bucket_start) ==
    IF bucket_start + MS_PER_5_MINUTES <= Cutoff1Min(aggNowMs) THEN "b_fetch" ELSE "prune_raw"

\* the agg_interval branch: now_ms, cutoff_raw, up to the first query
AggTickStart ==
    /\ RunLoopAtSelect(aggPc, vacuumRunning)
    /\ now >= nextAggAt
    /\ nextAggAt' = NextMultipleAfter(now, config.aggregation_interval_secs * 1000)
    /\ aggNowMs' = now
    /\ aggPc' = "a_min"
    /\ lastTick' = "none"
    /\ UNCHANGED <<aggBucketStart, aggFetched>>
    /\ UNCHANGED <<config, dockerVars, fnVars, histVars, sysInfoTable, now, nextFlushAt, aggTable, vacuumVars, workerVars,
                   queueVars, writerVars, storeVars, channelVars, subVars>>

\* get_min_raw_created_at_before returned
AggMinRaw(storeOk) ==
    /\ aggPc = "a_min"
    /\ LET min_ts == GetMinRawCreatedAtBefore(rawTable, CutoffRaw(aggNowMs)) IN
       IF ~storeOk THEN TickReturns("failed") /\ UNCHANGED aggBucketStart
       ELSE IF ~min_ts.some THEN TickReturns("ok") /\ UNCHANGED aggBucketStart
       ELSE LET floor == BucketFloor(min_ts.value, MS_PER_MINUTE) IN
            /\ aggBucketStart' = floor
            /\ aggPc' = AfterRawBucket(floor)
            /\ UNCHANGED <<aggFetched, lastTick>>
    /\ UNCHANGED <<aggNowMs, nextAggAt>>
    /\ UNCHANGED <<config, dockerVars, fnVars, histVars, sysInfoTable, now, nextFlushAt, aggTable, vacuumVars, workerVars,
                   queueVars, writerVars, storeVars, channelVars, subVars>>

\* get_raw_snapshots_by_time_range returned
AggFetchRaw(storeOk) ==
    /\ aggPc = "a_fetch"
    /\ IF ~storeOk THEN TickReturns("failed")
       ELSE LET snapshots == GetRawSnapshotsByTimeRange(rawTable, aggBucketStart,
                                 aggBucketStart + MS_PER_MINUTE) IN
            /\ aggFetched' = snapshots
            /\ aggPc' = IF AggregateSnapshots(snapshots, aggBucketStart,
                                              RESOLUTION_1MIN).some
                        THEN "a_save" ELSE "a_delete"
            /\ UNCHANGED lastTick
    /\ UNCHANGED <<aggNowMs, aggBucketStart, nextAggAt>>
    /\ UNCHANGED <<config, dockerVars, fnVars, histVars, sysInfoTable, now, nextFlushAt, aggTable, vacuumVars, workerVars,
                   queueVars, writerVars, storeVars, channelVars, subVars>>

\* save_aggregated_snapshot of the 1-min row returned
AggSaveMinute(storeOk) ==
    /\ aggPc = "a_save"
    /\ IF ~storeOk THEN TickReturns("failed") /\ UNCHANGED aggTable
       ELSE /\ aggTable' = SaveAggregatedSnapshot(aggTable,
                  AggregateSnapshots(aggFetched, aggBucketStart, RESOLUTION_1MIN).value)
            /\ aggPc' = "a_delete"
            /\ UNCHANGED <<aggFetched, lastTick>>
    /\ UNCHANGED <<aggNowMs, aggBucketStart, nextAggAt>>
    /\ UNCHANGED <<config, dockerVars, fnVars, histVars, sysInfoTable, now, nextFlushAt, vacuumVars, workerVars,
                   queueVars, writerVars, storeVars, channelVars, subVars>>

\* delete_raw_range returned; bucket_start += MS_PER_MINUTE
AggDeleteRaw(storeOk) ==
    /\ aggPc = "a_delete"
    /\ IF ~storeOk THEN TickReturns("failed") /\ UNCHANGED <<rawTable, aggBucketStart>>
       ELSE /\ rawTable' = DeleteRawRange(rawTable, aggBucketStart,
                                          aggBucketStart + MS_PER_MINUTE)
            /\ aggBucketStart' = aggBucketStart + MS_PER_MINUTE
            /\ aggPc' = AfterRawBucket(aggBucketStart + MS_PER_MINUTE)
            /\ aggFetched' = <<>>
            /\ UNCHANGED lastTick
    /\ UNCHANGED <<aggNowMs, nextAggAt>>
    /\ UNCHANGED <<config, dockerVars, fnVars, histVars, sysInfoTable, now, nextFlushAt, aggTable, vacuumVars, workerVars,
                   queueVars, writerVars, channelVars, subVars>>

\* get_min_aggregated_created_at_before returned
AggMinMinute(storeOk) ==
    /\ aggPc = "b_min"
    /\ LET min_ts == GetMinAggregatedCreatedAtBefore(aggTable, Cutoff1Min(aggNowMs),
                                                     RESOLUTION_1MIN) IN
       IF ~storeOk THEN TickReturns("failed") /\ UNCHANGED aggBucketStart
       ELSE IF ~min_ts.some
       THEN /\ aggPc' = "prune_raw"
            /\ UNCHANGED <<aggBucketStart, aggFetched, lastTick>>
       ELSE LET floor == BucketFloor(min_ts.value, MS_PER_5_MINUTES) IN
            /\ aggBucketStart' = floor
            /\ aggPc' = AfterMinuteBucket(floor)
            /\ UNCHANGED <<aggFetched, lastTick>>
    /\ UNCHANGED <<aggNowMs, nextAggAt>>
    /\ UNCHANGED <<config, dockerVars, fnVars, histVars, sysInfoTable, now, nextFlushAt, aggTable, vacuumVars, workerVars,
                   queueVars, writerVars, storeVars, channelVars, subVars>>

\* get_aggregated_snapshots_by_time_range returned
AggFetchMinute(storeOk) ==
    /\ aggPc = "b_fetch"
    /\ IF ~storeOk THEN TickReturns("failed")
       ELSE LET one_min_rows == GetAggregatedSnapshotsByTimeRange(aggTable,
                                    aggBucketStart, aggBucketStart + MS_PER_5_MINUTES,
                                    RESOLUTION_1MIN) IN
            /\ aggFetched' = one_min_rows
            /\ aggPc' = IF AggregateAggregatedSnapshots(one_min_rows, aggBucketStart,
                                                        RESOLUTION_5MIN).some
                        THEN "b_save" ELSE "b_delete"
            /\ UNCHANGED lastTick
    /\ UNCHANGED <<aggNowMs, aggBucketStart, nextAggAt>>
    /\ UNCHANGED <<config, dockerVars, fnVars, histVars, sysInfoTable, now, nextFlushAt, aggTable, vacuumVars, workerVars,
                   queueVars, writerVars, storeVars, channelVars, subVars>>

\* save_aggregated_snapshot of the 5-min row returned
AggSaveFiveMinute(storeOk) ==
    /\ aggPc = "b_save"
    /\ IF ~storeOk THEN TickReturns("failed") /\ UNCHANGED aggTable
       ELSE /\ aggTable' = SaveAggregatedSnapshot(aggTable,
                  AggregateAggregatedSnapshots(aggFetched, aggBucketStart,
                                               RESOLUTION_5MIN).value)
            /\ aggPc' = "b_delete"
            /\ UNCHANGED <<aggFetched, lastTick>>
    /\ UNCHANGED <<aggNowMs, aggBucketStart, nextAggAt>>
    /\ UNCHANGED <<config, dockerVars, fnVars, histVars, sysInfoTable, now, nextFlushAt, vacuumVars, workerVars,
                   queueVars, writerVars, storeVars, channelVars, subVars>>

\* delete_aggregated_range returned; bucket_start += MS_PER_5_MINUTES
AggDeleteMinute(storeOk) ==
    /\ aggPc = "b_delete"
    /\ IF ~storeOk THEN TickReturns("failed") /\ UNCHANGED <<aggTable, aggBucketStart>>
       ELSE /\ aggTable' = DeleteAggregatedRange(aggTable, aggBucketStart,
                               aggBucketStart + MS_PER_5_MINUTES, RESOLUTION_1MIN)
            /\ aggBucketStart' = aggBucketStart + MS_PER_5_MINUTES
            /\ aggPc' = AfterMinuteBucket(aggBucketStart + MS_PER_5_MINUTES)
            /\ aggFetched' = <<>>
            /\ UNCHANGED lastTick
    /\ UNCHANGED <<aggNowMs, nextAggAt>>
    /\ UNCHANGED <<config, dockerVars, fnVars, histVars, sysInfoTable, now, nextFlushAt, vacuumVars, workerVars,
                   queueVars, writerVars, storeVars, channelVars, subVars>>

\* prune_old_data returned (it reads the clock itself)
AggPruneRaw(storeOk) ==
    /\ aggPc = "prune_raw"
    /\ IF ~storeOk THEN TickReturns("failed") /\ UNCHANGED rawTable
       ELSE /\ rawTable' = PruneOldData(rawTable, now)
            /\ aggPc' = "prune_agg"
            /\ UNCHANGED <<aggFetched, lastTick>>
    /\ UNCHANGED <<aggNowMs, aggBucketStart, nextAggAt>>
    /\ UNCHANGED <<config, dockerVars, fnVars, histVars, sysInfoTable, now, nextFlushAt, aggTable, vacuumVars, workerVars,
                   queueVars, writerVars, channelVars, subVars>>

\* prune_aggregated_old_data returned; Ok(())
AggPruneAggregated(storeOk) ==
    /\ aggPc = "prune_agg"
    /\ IF ~storeOk THEN TickReturns("failed") /\ UNCHANGED aggTable
       ELSE /\ aggTable' = PruneAggregatedOldData(aggTable, now)
            /\ TickReturns("ok")
    /\ UNCHANGED <<aggNowMs, aggBucketStart, nextAggAt>>
    /\ UNCHANGED <<config, dockerVars, fnVars, histVars, sysInfoTable, now, nextFlushAt, vacuumVars, workerVars,
                   queueVars, writerVars, storeVars, channelVars, subVars>>

\* backfill.rs run_backfill: run_one_tick called outside the run loop, up to
\* its first query; it is called once, and once more at the same clock after a
\* pass that returned Ok. fnArgs holds the two tables and snapshots_saved_total
\* as the first call found them, fnResult the two tables as the second call
\* found them and the clock it read.
RunBackfill ==
    /\ RunLoopAtSelect(aggPc, vacuumRunning)
    /\ \/ /\ fnPc = "none"
          /\ fnPc' = "pass"
          /\ fnArgs' = <<rawTable, aggTable, savedTotal>>
          /\ UNCHANGED fnResult
       \/ /\ fnPc = "pass"
          /\ lastTick = "ok"
          /\ aggNowMs = now
          /\ fnPc' = "pass_again"
          /\ fnResult' = <<rawTable, aggTable, now>>
          /\ UNCHANGED fnArgs
    /\ aggNowMs' = now
    /\ aggPc' = "a_min"
    /\ lastTick' = "none"
    /\ UNCHANGED <<aggBucketStart, aggFetched, nextAggAt>>
    /\ UNCHANGED <<config, dockerVars, histVars, sysInfoTable, now, nextFlushAt, aggTable, vacuumVars, workerVars,
                   queueVars, writerVars, storeVars, channelVars, subVars>>

(***************************************************************************)
(* aggregation_worker.rs: VACUUM.                                          *)
(***************************************************************************)
VacuumChannelCapacity == 1
BLOB_VERSION == 1
BLOB_VERSION_SYSTEM_DYNAMIC == 2

\* vacuum_scheduler, fixed interval: sleep returned; tx.send(()).await
\* completes at once when the channel has room
VacWake ==
    /\ vacPc = "sleep"
    /\ now >= vacWakeAt
    /\ IF vacChan < VacuumChannelCapacity
       THEN /\ vacChan' = vacChan + 1
            /\ vacWakeAt' = now + config.vacuum_interval_secs * 1000
            /\ UNCHANGED vacPc
       ELSE /\ vacPc' = "send"
            /\ UNCHANGED <<vacChan, vacWakeAt>>
    /\ UNCHANGED <<vacuumRunning, vacuumsDone>>
    /\ UNCHANGED <<config, dockerVars, fnVars, histVars, sysInfoTable, now, nextFlushAt, aggTable, tickVars, workerVars,
                   queueVars, writerVars, storeVars, channelVars, subVars>>

\* the blocked tx.send(()).await completes
VacSend ==
    /\ vacPc = "send"
    /\ vacChan < VacuumChannelCapacity
    /\ vacChan' = vacChan + 1
    /\ vacPc' = "sleep"
    /\ vacWakeAt' = now + config.vacuum_interval_secs * 1000
    /\ UNCHANGED <<vacuumRunning, vacuumsDone>>
    /\ UNCHANGED <<config, dockerVars, fnVars, histVars, sysInfoTable, now, nextFlushAt, aggTable, tickVars, workerVars,
                   queueVars, writerVars, storeVars, channelVars, subVars>>

\* the vacuum_rx.recv() branch, up to repo.vacuum().await
RunVacuumStart ==
    /\ RunLoopAtSelect(aggPc, vacuumRunning)
    /\ vacChan > 0
    /\ vacChan' = vacChan - 1
    /\ vacuumRunning' = TRUE
    /\ UNCHANGED <<vacuumsDone, vacPc, vacWakeAt>>
    /\ UNCHANGED <<config, dockerVars, fnVars, histVars, sysInfoTable, now, nextFlushAt, aggTable, tickVars, workerVars,
                   queueVars, writerVars, storeVars, channelVars, subVars>>

\* repo.vacuum() returned; the result is logged
RunVacuumDone(storeOk) ==
    /\ vacuumRunning
    /\ vacuumRunning' = FALSE
    /\ vacuumsDone' = IF storeOk THEN vacuumsDone + 1 ELSE vacuumsDone
    /\ UNCHANGED <<vacPc, vacChan, vacWakeAt>>
    /\ UNCHANGED <<config, dockerVars, fnVars, histVars, sysInfoTable, now, nextFlushAt, aggTable, tickVars, workerVars,
                   queueVars, writerVars, storeVars, channelVars, subVars>>

(***************************************************************************)
(* The clock.                                                              *)
(***************************************************************************)
\* a task has something to do now: time passes only when none has
TaskReady ==
    \/ writerPc = "select" /\ (queue # <<>> \/ now >= nextFlushAt)
    \/ workerPc = "send" /\ QueueHasRoom(queue)
    \/ RunLoopAtSelect(aggPc, vacuumRunning) /\ (now >= nextAggAt \/ vacChan > 0)
    \/ vacPc = "sleep" /\ now >= vacWakeAt
    \/ vacPc = "send" /\ vacChan < VacuumChannelCapacity
    \/ histPc # "idle"

Deadlines == {d \in {nextFlushAt, nextAggAt, vacWakeAt} : d > now}

SetMin(S) == CHOOSE x \in S : \A y \in S : x <= y

\* time passes up to the next deadline
AdvanceClock ==
    /\ ~TaskReady
    /\ Deadlines # {}
    /\ SetMin(Deadlines) <= config.maxClockMs
    /\ now' = SetMin(Deadlines)
    /\ UNCHANGED <<config, dockerVars, fnVars, histVars, sysInfoTable, nextFlushAt, schedVars, workerVars, queueVars, writerVars,
                   storeVars, channelVars, subVars>>

(***************************************************************************)
(* history_repo/blob.rs: the version prefix of a blob column.              *)
(***************************************************************************)
Bytes == 0..MaxByte

RECURSIVE SeqsUpTo(_, _)
SeqsUpTo(S, n) ==
    IF n = 0 THEN {<<>>}
    ELSE LET shorter == SeqsUpTo(S, n - 1) IN
         shorter \cup {Append(q, x) : q \in {r \in shorter : Len(r) = n - 1}, x \in S}

Payloads == SeqsUpTo(Bytes, MaxPayloadLen)

\* fault variant: a writer that stores the payload without a prefix
WithoutVersionPrefix(version, payload) == payload

\* with_version_prefix
WithVersionPrefix(version, payload) == <<version>> \o payload

\* blob_payload
BlobPayload(bytes, expected_version) ==
    IF bytes = <<>> THEN bytes
    ELSE IF bytes[1] = expected_version THEN Tail(bytes)
    ELSE bytes

\* blob_version
BlobVersion(bytes) == IF bytes = <<>> THEN 0 ELSE bytes[1]

\* a column is written with the prefix of its kind
WriteBlob ==
    /\ fnPc = "ready"
    /\ fnPc' = "written"
    /\ fnResult' = [stored |-> WithVersionPrefix(fnArgs.version, fnArgs.payload),
                    payload |-> <<>>]
    /\ UNCHANGED <<fnArgs, config, dockerVars, now, nextFlushAt, schedVars, workerVars, queueVars,
                   writerVars, storeVars, channelVars, subVars, sysInfoTable, histVars>>

\* a column as a version of the program without the prefix wrote it
WriteLegacyBlob ==
    /\ fnPc = "ready"
    /\ fnPc' = "legacy"
    /\ fnResult' = [stored |-> fnArgs.payload, payload |-> <<>>]
    /\ UNCHANGED <<fnArgs, config, dockerVars, now, nextFlushAt, schedVars, workerVars, queueVars,
                   writerVars, storeVars, channelVars, subVars, sysInfoTable, histVars>>

\* the column is read: blob_payload gives the bytes handed to the decoder
ReadBlob ==
    /\ fnPc \in {"written", "legacy"}
    /\ fnPc' = IF fnPc = "written" THEN "read" ELSE "read_legacy"
    /\ fnResult' = [fnResult EXCEPT !.payload = BlobPayload(fnResult.stored, fnArgs.version)]
    /\ UNCHANGED <<fnArgs, config, dockerVars, now, nextFlushAt, schedVars, workerVars, queueVars,
                   writerVars, storeVars, channelVars, subVars, sysInfoTable, histVars>>

(***************************************************************************)
(* history_repo: parse_snapshot_row.  wincode is outside the repository;   *)
(* its place is taken by a length-prefixed encoding of a list of items:    *)
(* what matters to the program is that some byte strings decode and        *)
(* others do not.                                                          *)
(***************************************************************************)
Items == {0, 1}
Values == SeqsUpTo(Items, MaxItems)

\* wincode::serialize
Serialize(items) == <<Len(items)>> \o items

\* wincode::deserialize: Err unless the bytes are an encoding
Deserialize(bytes) ==
    IF bytes # <<>> /\ bytes[1] = Len(bytes) - 1
    THEN [ok |-> TRUE, value |-> Tail(bytes)]
    ELSE [ok |-> FALSE, value |-> <<>>]

\* SystemStats, the layout of version 1: the static fields, then the dynamic ones
DeserializeSystemStats(bytes) ==
    LET r == Deserialize(bytes) IN
    IF r.ok /\ r.value # <<>> THEN r ELSE [ok |-> FALSE, value |-> <<>>]

\* the projection of SystemStats on SystemStatsDynamic
ProjectDynamic(full) == Tail(full)

\* vec![], StorageStats / NetworkStats without entries, SystemStatsDynamic of zeros
DefaultValue == <<>>

\* Result::unwrap_or_else(|e| { log; default })
UnwrapOrElse(result, default) == IF result.ok THEN result.value ELSE default

\* deserialize_container_data, deserialize_storage_data, deserialize_network_data
DeserializeColumn(bytes) ==
    UnwrapOrElse(Deserialize(BlobPayload(bytes, BLOB_VERSION)), DefaultValue)

\* the match on blob_version(&system_data)
DeserializeSystemData(bytes) ==
    IF BlobVersion(bytes) = BLOB_VERSION_SYSTEM_DYNAMIC
    THEN UnwrapOrElse(Deserialize(BlobPayload(bytes, BLOB_VERSION_SYSTEM_DYNAMIC)),
                      DefaultValue)
    ELSE LET full == DeserializeSystemStats(BlobPayload(bytes, BLOB_VERSION)) IN
         IF full.ok THEN ProjectDynamic(full.value) ELSE DefaultValue

\* fault variant: a row that is refused when one of its blobs does not decode
RowRefusedOnDecodeError(row) ==
    /\ Deserialize(BlobPayload(row.container_data, BLOB_VERSION)).ok
    /\ Deserialize(BlobPayload(row.storage_data, BLOB_VERSION)).ok
    /\ Deserialize(BlobPayload(row.network_data, BLOB_VERSION)).ok

\* parse_snapshot_row returns Err only through try_get; the columns are NOT NULL
\* and of the declared types
RowParses(row) == TRUE

\* parse_snapshot_row on all the columns of a row
ParseSnapshotRowColumns(row) ==
    [ok |-> RowParses(row),
     timestamp |-> row.created_at,
     cpu_usage_percent |-> row.cpu_load,
     ram_used |-> row.memory_used,
     containers |-> DeserializeColumn(row.container_data),
     storage |-> DeserializeColumn(row.storage_data),
     network |-> DeserializeColumn(row.network_data),
     system |-> DeserializeSystemData(row.system_data)]

BlobColumns == {"container_data", "storage_data", "network_data", "system_data"}

\* a blob cut short by one byte: its length prefix no longer matches
Truncated(bytes) == SubSeq(bytes, 1, Len(bytes) - 1)

\* the row save_snapshots wrote for a snapshot (system_data as the dynamic
\* layout of version 2, or as the full layout of version 1 an older version of
\* the program wrote), with the column args.corrupt damaged afterwards
StoredRow(args) ==
    LET Damage(column, bytes) == IF args.corrupt = column THEN Truncated(bytes) ELSE bytes
        system_data == IF args.systemLayout = "dynamic"
                       THEN WithVersionPrefix(BLOB_VERSION_SYSTEM_DYNAMIC,
                                              Serialize(args.system))
                       ELSE WithVersionPrefix(BLOB_VERSION,
                                              Serialize(<<0>> \o args.system))
    IN [created_at |-> args.created_at,
        cpu_load |-> args.cpu_load,
        memory_used |-> args.memory_used,
        container_data |-> Damage("container_data",
                               WithVersionPrefix(BLOB_VERSION, Serialize(args.containers))),
        storage_data |-> Damage("storage_data",
                               WithVersionPrefix(BLOB_VERSION, Serialize(args.storage))),
        network_data |-> Damage("network_data",
                               WithVersionPrefix(BLOB_VERSION, Serialize(args.network))),
        system_data |-> Damage("system_data", system_data)]

\* the row is in the table
StoreRow ==
    /\ fnPc = "ready_row"
    /\ fnPc' = "stored"
    /\ fnResult' = [row |-> StoredRow(fnArgs)]
    /\ UNCHANGED <<fnArgs, config, dockerVars, now, nextFlushAt, schedVars, workerVars, queueVars,
                   writerVars, storeVars, channelVars, subVars, sysInfoTable, histVars>>

\* a range query reads the row back
ParseRow ==
    /\ fnPc = "stored"
    /\ fnPc' = "parsed"
    /\ fnResult' = [row |-> fnResult.row, snapshot |-> ParseSnapshotRowColumns(fnResult.row)]
    /\ UNCHANGED <<fnArgs, config, dockerVars, now, nextFlushAt, schedVars, workerVars, queueVars,
                   writerVars, storeVars, channelVars, subVars, sysInfoTable, histVars>>

(***************************************************************************)
(* history_repo/aggregation.rs: the cpu and memory columns of a bucket's   *)
(* row.  cpu loads are f64: a load is held as a fraction num / den, and    *)
(* sums and quotients are exact.                                           *)
(***************************************************************************)
Frac(n) == [num |-> n, den |-> 1]
FracAdd(a, b) == [num |-> a.num * b.den + b.num * a.den, den |-> a.den * b.den]
FracDiv(a, n) == [num |-> a.num, den |-> a.den * n]
FracLeq(a, b) == a.num * b.den <= b.num * a.den

RECURSIVE SumF64(_)
SumF64(v) == IF v = <<>> THEN Frac(0) ELSE FracAdd(v[1], SumF64(Tail(v)))

RECURSIVE SumI64(_)
SumI64(v) == IF v = <<>> THEN 0 ELSE v[1] + SumI64(Tail(v))

\* fault variant: a mean without the division
MeanWithoutDivision(v) == SumI64(v)

\* mean_f64
MeanF64(v) == IF v = <<>> THEN Frac(0) ELSE FracDiv(SumF64(v), Len(v))

\* mean_i64: integer division truncates (the values are not negative)
MeanI64(v) == IF v = <<>> THEN 0 ELSE SumI64(v) \div Len(v)

\* fold(f64::INFINITY, f64::min) and fold(f64::NEG_INFINITY, f64::max) over a
\* slice that is not empty
MinF64(v) == v[CHOOSE i \in 1..Len(v) : \A j \in 1..Len(v) : FracLeq(v[i], v[j])]
MaxF64(v) == v[CHOOSE i \in 1..Len(v) : \A j \in 1..Len(v) : FracLeq(v[j], v[i])]

\* iter().min() / iter().max()
MinI64(v) == SeqMin(v)
MaxI64(v) == CHOOSE x \in {v[i] : i \in 1..Len(v)} : \A i \in 1..Len(v) : v[i] <= x

\* aggregate_snapshots: the six columns computed from cpu.usage_percent and
\* ram.used of the bucket's snapshots; None for an empty slice
AggregateSnapshotsColumns(snapshots, resolution_seconds) ==
    IF snapshots = <<>> THEN None
    ELSE LET cpu_loads == [i \in 1..Len(snapshots) |-> Frac(snapshots[i].cpu)]
             memory_used == [i \in 1..Len(snapshots) |-> snapshots[i].mem] IN
         Some([resolution_seconds |-> resolution_seconds,
               cpu_load_avg |-> MeanF64(cpu_loads),
               cpu_load_min |-> MinF64(cpu_loads),
               cpu_load_max |-> MaxF64(cpu_loads),
               memory_used_avg |-> MeanI64(memory_used),
               memory_used_min |-> MinI64(memory_used),
               memory_used_max |-> MaxI64(memory_used)])

\* fault variant: a roll-up that treats the source averages as samples
AggregateAggregatedColumnsOfAverages(aggs, resolution_seconds) ==
    IF aggs = <<>> THEN None
    ELSE LET Column(name) == [i \in 1..Len(aggs) |-> aggs[i][name]] IN
         Some([resolution_seconds |-> resolution_seconds,
               cpu_load_avg |-> MeanF64(Column("cpu_load_avg")),
               cpu_load_min |-> MinF64(Column("cpu_load_avg")),
               cpu_load_max |-> MaxF64(Column("cpu_load_avg")),
               memory_used_avg |-> MeanI64(Column("memory_used_avg")),
               memory_used_min |-> MinI64(Column("memory_used_avg")),
               memory_used_max |-> MaxI64(Column("memory_used_avg"))])

\* aggregate_aggregated_snapshots: the same columns of a 5-minute row
AggregateAggregatedColumns(aggs, resolution_seconds) ==
    IF aggs = <<>> THEN None
    ELSE LET Column(name) == [i \in 1..Len(aggs) |-> aggs[i][name]] IN
         Some([resolution_seconds |-> resolution_seconds,
               cpu_load_avg |-> MeanF64(Column("cpu_load_avg")),
               cpu_load_min |-> MinF64(Column("cpu_load_min")),
               cpu_load_max |-> MaxF64(Column("cpu_load_max")),
               memory_used_avg |-> MeanI64(Column("memory_used_avg")),
               memory_used_min |-> MinI64(Column("memory_used_min")),
               memory_used_max |-> MaxI64(Column("memory_used_max"))])

\* the row with its created_at column
WithCreatedAt(columns, bucket_start_ts) ==
    IF columns.some
    THEN Some([created_at |-> bucket_start_ts] @@ columns.value)
    ELSE None

\* fault variant: a row dated by its first sample
AggregateSnapshotsRowAtFirstSample(snapshots, bucket_start_ts, resolution_seconds) ==
    WithCreatedAt(AggregateSnapshotsColumns(snapshots, resolution_seconds),
                  IF snapshots = <<>> THEN bucket_start_ts ELSE snapshots[1].timestamp)

\* aggregate_snapshots: created_at, resolution_seconds and the six columns
AggregateSnapshotsRow(snapshots, bucket_start_ts, resolution_seconds) ==
    WithCreatedAt(AggregateSnapshotsColumns(snapshots, resolution_seconds), bucket_start_ts)

\* aggregate_aggregated_snapshots: created_at, resolution_seconds and the six columns
AggregateAggregatedRow(aggs, bucket_start_ts, resolution_seconds) ==
    WithCreatedAt(AggregateAggregatedColumns(aggs, resolution_seconds), bucket_start_ts)

\* aggregate_snapshots called on the snapshots of fnArgs
CallAggregateSnapshots ==
    /\ fnPc = "ready_snapshots"
    /\ fnPc' = "aggregated_snapshots"
    /\ fnResult' = AggregateSnapshotsRow(fnArgs.rows, fnArgs.bucket_start_ts,
                                         fnArgs.resolution_seconds)
    /\ UNCHANGED <<fnArgs, config, dockerVars, now, nextFlushAt, schedVars, workerVars, queueVars,
                   writerVars, storeVars, channelVars, subVars, sysInfoTable, histVars>>

\* aggregate_aggregated_snapshots called on the 1-minute rows of fnArgs
CallAggregateAggregated ==
    /\ fnPc = "ready_rows"
    /\ fnPc' = "aggregated_rows"
    /\ fnResult' = AggregateAggregatedRow(fnArgs.rows, fnArgs.bucket_start_ts,
                                          fnArgs.resolution_seconds)
    /\ UNCHANGED <<fnArgs, config, dockerVars, now, nextFlushAt, schedVars, workerVars, queueVars,
                   writerVars, storeVars, channelVars, subVars, sysInfoTable, histVars>>

\* phase A on the buckets of fnArgs: one 1-minute row per bucket
AggregateMinutes ==
    /\ fnPc = "ready_buckets"
    /\ fnPc' = "minutes"
    /\ fnResult' = [i \in 1..Len(fnArgs) |->
                       AggregateSnapshotsColumns(fnArgs[i], RESOLUTION_1MIN).value]
    /\ UNCHANGED <<fnArgs, config, dockerVars, now, nextFlushAt, schedVars, workerVars, queueVars,
                   writerVars, storeVars, channelVars, subVars, sysInfoTable, histVars>>

\* phase B on those rows: one 5-minute row, stored beside them
AggregateFiveMinutes ==
    /\ fnPc = "minutes"
    /\ fnPc' = "five_minutes"
    /\ fnResult' = Append(fnResult,
                          AggregateAggregatedColumns(fnResult, RESOLUTION_5MIN).value)
    /\ UNCHANGED <<fnArgs, config, dockerVars, now, nextFlushAt, schedVars, workerVars, queueVars,
                   writerVars, storeVars, channelVars, subVars, sysInfoTable, histVars>>

(***************************************************************************)
(* history_repo/aggregation.rs: container groups.  Container ids and names  *)
(* are numbers, ordered as the strings they stand for.                      *)
(***************************************************************************)
\* mean_u64: integer division truncates
MeanU64(v) == IF v = <<>> THEN 0 ELSE SumI64(v) \div Len(v)

\* fault variant: identity and state both taken from the first observation
AggregateOneContainerFirstOnly(refs) == refs[1]

\* aggregate_one_container, for the fields with a mean, a sum, and state, id
\* and name; refs is not empty
AggregateOneContainer(refs) ==
    LET first == refs[1]
        last == refs[Len(refs)]
        Column(field) == [i \in 1..Len(refs) |-> refs[i][field]] IN
    [id |-> first.id,
     name |-> first.name,
     cpu_percent |-> MeanF64(Column("cpu_percent")),
     memory_usage_bytes |-> MeanU64(Column("memory_usage_bytes")),
     memory_limit_bytes |-> MeanU64(Column("memory_limit_bytes")),
     state |-> last.state,
     network_rx_bytes |-> SumI64(Column("network_rx_bytes")),
     network_tx_bytes |-> SumI64(Column("network_tx_bytes")),
     network_rx_packets |-> SumI64(Column("network_rx_packets")),
     network_tx_packets |-> SumI64(Column("network_tx_packets")),
     block_read_bytes |-> SumI64(Column("block_read_bytes")),
     block_write_bytes |-> SumI64(Column("block_write_bytes")),
     cpu_throttled_periods |-> SumI64(Column("cpu_throttled_periods")),
     cpu_throttled_time_ns |-> SumI64(Column("cpu_throttled_time_ns")),
     cpu_kernel_percent |-> MeanF64(Column("cpu_kernel_percent")),
     cpu_user_percent |-> MeanF64(Column("cpu_user_percent"))]

\* by_id.entry(c.id).or_default().push(c), over the container lists in order
ById(lists, id) ==
    LET HasId(c) == c.id = id IN SelectSeq(Flatten(lists), HasId)

\* the keys of by_id
ContainerIds(lists) == {Flatten(lists)[i].id : i \in 1..Len(Flatten(lists))}

\* the orders in which a HashMap with these keys may be iterated
IterationOrders(ids) ==
    {order \in SeqsUpTo(ids, Cardinality(ids)) :
        Len(order) = Cardinality(ids) /\ {order[i] : i \in 1..Len(order)} = ids}

\* aggregate_containers and aggregate_containers_from_aggregated over the
\* container lists of the bucket's rows: one entry per id, in the order the
\* map yields them, then out.sort_by(name), a stable sort
AggregateContainers(lists, order) ==
    LET out == [i \in 1..Len(order) |-> AggregateOneContainer(ById(lists, order[i]))] IN
    SortByKey(out, [i \in 1..Len(out) |-> out[i].name])

\* phase A on the buckets of fnArgs: the containers of one 1-minute row per bucket
AggregateContainersMinutes ==
    /\ fnPc = "ready_containers"
    /\ fnPc' = "container_minutes"
    /\ \E orders \in [1..Len(fnArgs) -> IterationOrders(ContainerIds(Flatten(fnArgs)))] :
           /\ \A i \in 1..Len(fnArgs) : orders[i] \in IterationOrders(ContainerIds(fnArgs[i]))
           /\ fnResult' = [minutes |-> [i \in 1..Len(fnArgs) |->
                                          AggregateContainers(fnArgs[i], orders[i])],
                           five_minutes |-> <<>>]
    /\ UNCHANGED <<fnArgs, config, dockerVars, now, nextFlushAt, schedVars, workerVars, queueVars,
                   writerVars, storeVars, channelVars, subVars, sysInfoTable, histVars>>

\* phase B on those rows: the containers of the 5-minute row
AggregateContainersFiveMinutes ==
    /\ fnPc = "container_minutes"
    /\ fnPc' = "container_five_minutes"
    /\ \E order \in IterationOrders(ContainerIds(fnResult.minutes)) :
           fnResult' = [fnResult EXCEPT
                           !.five_minutes = AggregateContainers(fnResult.minutes, order)]
    /\ UNCHANGED <<fnArgs, config, dockerVars, now, nextFlushAt, schedVars, workerVars, queueVars,
                   writerVars, storeVars, channelVars, subVars, sysInfoTable, histVars>>

RECURSIVE AscendingSeq(_)
AscendingSeq(S) ==
    IF S = {} THEN <<>> ELSE LET m == SetMin(S) IN <<m>> \o AscendingSeq(S \ {m})

(***************************************************************************)
(* docker_repo: the container-stream registry and the live-stats cache.    *)
(* The runtime is multi-threaded: a spawned task runs beside its spawner,  *)
(* and abort() stops a task only where it is parked at an await.           *)
(***************************************************************************)
Containers == 1..MaxContainers

NoLocals == [running_set |-> {}, to_add |-> {}, to_remove |-> {}, new_handles |-> {}]

\* the task start_monitoring spawns: it is about to await stream.next()
StreamTask(id) == [id |-> id, pc |-> "next", aborted |-> FALSE]

\* the keys of active_streams
RegistryKeys(streams) == {id \in Containers : streams[id] # 0}

\* a container starts, or starts again under its id
ContainerStarts(id) ==
    /\ id \notin dockerRunning
    /\ dockerRunning' = dockerRunning \cup {id}
    /\ UNCHANGED <<registryVars, recVars>>
    /\ UNCHANGED <<config, now, nextFlushAt, schedVars, workerVars, queueVars, writerVars,
                   storeVars, channelVars, subVars, sysInfoTable, histVars, fnVars>>

\* a container stops
ContainerStops(id) ==
    /\ id \in dockerRunning
    /\ dockerRunning' = dockerRunning \ {id}
    /\ UNCHANGED <<registryVars, recVars>>
    /\ UNCHANGED <<config, now, nextFlushAt, schedVars, workerVars, queueVars, writerVars,
                   storeVars, channelVars, subVars, sysInfoTable, histVars, fnVars>>

\* list_running_and_refresh_stats: docker.list_containers returned; on Err
\* the call returns get_cached_stats()
RecList(listed) ==
    /\ recPc = "idle"
    /\ IF listed
       THEN /\ recPc' = "listed"
            /\ recLocals' = [NoLocals EXCEPT !.running_set = dockerRunning]
            /\ UNCHANGED lastContainers
       ELSE /\ lastContainers' = liveStats
            /\ UNCHANGED <<recPc, recLocals>>
    /\ UNCHANGED <<dockerRunning, registryVars>>
    /\ UNCHANGED <<config, now, nextFlushAt, schedVars, workerVars, queueVars, writerVars,
                   storeVars, channelVars, subVars, sysInfoTable, histVars, fnVars>>

\* active_streams.read(): current_keys, to_add and to_remove
RecDiff ==
    /\ recPc = "listed"
    /\ recPc' = "diffed"
    /\ LET current_keys == RegistryKeys(activeStreams) IN
       recLocals' = [recLocals EXCEPT
                        !.to_add = recLocals.running_set \ current_keys,
                        !.to_remove = current_keys \ recLocals.running_set]
    /\ UNCHANGED <<dockerRunning, registryVars, lastContainers>>
    /\ UNCHANGED <<config, now, nextFlushAt, schedVars, workerVars, queueVars, writerVars,
                   storeVars, channelVars, subVars, sysInfoTable, histVars, fnVars>>

\* start_monitoring for each id of to_add: tokio::spawn; the handles are kept
\* in new_handles
RecSpawn ==
    /\ recPc = "diffed"
    /\ Len(streamTasks) + Cardinality(recLocals.to_add) <= MaxStreamTasks
    /\ recPc' = "spawned"
    /\ LET ids == AscendingSeq(recLocals.to_add) IN
       /\ streamTasks' = streamTasks \o [i \in 1..Len(ids) |-> StreamTask(ids[i])]
       /\ recLocals' = [recLocals EXCEPT
                           !.new_handles = {<<ids[i], Len(streamTasks) + i>> :
                                               i \in 1..Len(ids)}]
    /\ UNCHANGED <<dockerRunning, activeStreams, liveStats, lastContainers>>
    /\ UNCHANGED <<config, now, nextFlushAt, schedVars, workerVars, queueVars, writerVars,
                   storeVars, channelVars, subVars, sysInfoTable, histVars, fnVars>>

\* handle.abort() on each of the handles: a task that has not finished is
\* marked, and stops where it is next parked
Aborted(tasks, handles) ==
    [t \in 1..Len(tasks) |->
        IF t \in handles /\ tasks[t].pc # "done"
        THEN [tasks[t] EXCEPT !.aborted = TRUE] ELSE tasks[t]]

\* active_streams.write(): insert the new handles, remove those of to_remove
StreamsAfterRegister(streams, new_handles, to_remove) ==
    [id \in Containers |->
        IF id \in to_remove THEN 0
        ELSE IF \E h \in new_handles : h[1] = id
        THEN (CHOOSE h \in new_handles : h[1] = id)[2]
        ELSE streams[id]]

\* the write section on active_streams
RecRegister ==
    /\ recPc = "spawned"
    /\ activeStreams' = StreamsAfterRegister(activeStreams, recLocals.new_handles,
                                             recLocals.to_remove)
    /\ streamTasks' = Aborted(streamTasks,
                              {activeStreams[id] : id \in recLocals.to_remove} \ {0})
    /\ recPc' = IF recLocals.to_remove # {} THEN "registered" ELSE "cached"
    /\ UNCHANGED <<dockerRunning, liveStats, recLocals, lastContainers>>
    /\ UNCHANGED <<config, now, nextFlushAt, schedVars, workerVars, queueVars, writerVars,
                   storeVars, channelVars, subVars, sysInfoTable, histVars, fnVars>>

\* the write section on live_stats: live.remove(id) for each id of to_remove
RecRemoveLive ==
    /\ recPc = "registered"
    /\ liveStats' = liveStats \ recLocals.to_remove
    /\ recPc' = "cached"
    /\ UNCHANGED <<dockerRunning, activeStreams, streamTasks, recLocals, lastContainers>>
    /\ UNCHANGED <<config, now, nextFlushAt, schedVars, workerVars, queueVars, writerVars,
                   storeVars, channelVars, subVars, sysInfoTable, histVars, fnVars>>

\* get_cached_stats(): the call returns the values of live_stats
RecReturn ==
    /\ recPc = "cached"
    /\ lastContainers' = liveStats
    /\ recPc' = "idle"
    /\ recLocals' = NoLocals
    /\ UNCHANGED <<dockerRunning, registryVars>>
    /\ UNCHANGED <<config, now, nextFlushAt, schedVars, workerVars, queueVars, writerVars,
                   storeVars, channelVars, subVars, sysInfoTable, histVars, fnVars>>

\* the task's position changes
TaskMoves(t, pc) ==
    /\ streamTasks' = [streamTasks EXCEPT ![t].pc = pc]
    /\ UNCHANGED <<dockerRunning, recVars>>
    /\ UNCHANGED <<config, now, nextFlushAt, schedVars, workerVars, queueVars, writerVars,
                   storeVars, channelVars, subVars, sysInfoTable, histVars, fnVars>>

\* stream.next() returned Some(Ok(s)) with statistics
TaskItem(t) ==
    /\ streamTasks[t].pc = "next"
    /\ ~streamTasks[t].aborted
    /\ TaskMoves(t, "item")
    /\ UNCHANGED <<activeStreams, liveStats>>

\* live_stats.write().await.insert(id, stats): the lock was free, the task
\* did not yield
TaskInsert(t) ==
    /\ streamTasks[t].pc = "item"
    /\ liveStats' = liveStats \cup {streamTasks[t].id}
    /\ TaskMoves(t, "next")
    /\ UNCHANGED activeStreams

\* stream.next() returned None or Some(Err): the loop is left
TaskStreamEnds(t) ==
    /\ streamTasks[t].pc = "next"
    /\ ~streamTasks[t].aborted
    /\ TaskMoves(t, "ended")
    /\ UNCHANGED <<activeStreams, liveStats>>

\* active_streams.write().await.remove(&id): the task ends
TaskRemoveEntry(t) ==
    /\ streamTasks[t].pc = "ended"
    /\ activeStreams' = [activeStreams EXCEPT ![streamTasks[t].id] = 0]
    /\ TaskMoves(t, "done")
    /\ UNCHANGED liveStats

\* an aborted task is dropped where it is parked: at stream.next(), or at a
\* lock it had to wait for
TaskCancelled(t) ==
    /\ streamTasks[t].pc # "done"
    /\ streamTasks[t].aborted
    /\ TaskMoves(t, "done")
    /\ UNCHANGED <<activeStreams, liveStats>>

NextDocker ==
    \/ \E id \in Containers : ContainerStarts(id)
    \/ \E id \in Containers : ContainerStops(id)
    \/ \E listed \in BOOLEAN : RecList(listed)
    \/ RecDiff
    \/ RecSpawn
    \/ RecRegister
    \/ RecRemoveLive
    \/ RecReturn
    \/ \E t \in 1..Len(streamTasks) : TaskItem(t)
    \/ \E t \in 1..Len(streamTasks) : TaskInsert(t)
    \/ \E t \in 1..Len(streamTasks) : TaskStreamEnds(t)
    \/ \E t \in 1..Len(streamTasks) : TaskRemoveEntry(t)
    \/ \E t \in 1..Len(streamTasks) : TaskCancelled(t)

(***************************************************************************)
(* history_repo: get_history, and routes/http.rs: GET /api/history.        *)
(***************************************************************************)

\* a raw row read back as a FullSystemSnapshot; source and ids record where the
\* entry came from
ParseSnapshotRow(r) == [timestamp |-> r.timestamp, source |-> "raw", ids |-> <<r.id>>]

\* aggregated_to_snapshot: timestamp = created_at as u64 (created_at is a bucket
\* floor of a timestamp, never negative)
AggregatedToSnapshot(agg) ==
    [timestamp |-> agg.created_at, source |-> "agg", ids |-> agg.samples]

\* fault variant: a map that keeps the first snapshot inserted for a bucket
DownsampleKeepsFirst(snapshots, resolution_ms) ==
    IF snapshots = <<>> \/ resolution_ms <= 0 THEN snapshots
    ELSE LET Bucket(s) == (s.timestamp \div resolution_ms) * resolution_ms
             Indexes == 1..Len(snapshots)
             First(b) == CHOOSE i \in Indexes :
                            /\ Bucket(snapshots[i]) = b
                            /\ \A j \in Indexes : Bucket(snapshots[j]) = b => j >= i
             keys == AscendingSeq({Bucket(snapshots[i]) : i \in Indexes})
         IN  [k \in 1..Len(keys) |-> snapshots[First(keys[k])]]

\* downsample_snapshots: a BTreeMap from bucket to the last snapshot inserted
\* for it, read out in key order
DownsampleSnapshots(snapshots, resolution_ms) ==
    IF snapshots = <<>> \/ resolution_ms <= 0 THEN snapshots
    ELSE LET Bucket(s) == (s.timestamp \div resolution_ms) * resolution_ms
             Indexes == 1..Len(snapshots)
             Last(b) == CHOOSE i \in Indexes :
                            /\ Bucket(snapshots[i]) = b
                            /\ \A j \in Indexes : Bucket(snapshots[j]) = b => j <= i
             keys == AscendingSeq({Bucket(snapshots[i]) : i \in Indexes})
         IN  [k \in 1..Len(keys) |-> snapshots[Last(keys[k])]]

\* fault variant: a raw read that starts at from_ts
RawFromUnclamped(from_ts, raw_cutoff_ts) == from_ts

\* raw_from = from_ts.max(raw_cutoff_ts)
RawFrom(from_ts, raw_cutoff_ts) == Max(from_ts, raw_cutoff_ts)

\* get_history reads the raw table
ReadsRaw(req) == req.to_ts > req.raw_cutoff_ts

\* get_history reads the aggregated table
ReadsAggregated(req) == req.from_ts < req.raw_cutoff_ts

\* get_history up to its first await: the raw part, downsampled
HistoryRawPart(rawRows, req) ==
    LET rows == GetRawSnapshotsByTimeRange(rawRows,
                    RawFrom(req.from_ts, req.raw_cutoff_ts), req.to_ts)
        raw == [i \in 1..Len(rows) |-> ParseSnapshotRow(rows[i])] IN
    IF req.resolution_secs > 1 /\ raw # <<>>
    THEN DownsampleSnapshots(raw, req.resolution_secs * 1000)
    ELSE raw

AggResolution(resolution_secs) ==
    IF resolution_secs >= RESOLUTION_5MIN THEN RESOLUTION_5MIN ELSE RESOLUTION_1MIN

\* the aggregated part
HistoryAggPart(aggRows, req) ==
    LET aggs == GetAggregatedSnapshotsByTimeRange(aggRows, req.from_ts,
                    Min(req.to_ts, req.raw_cutoff_ts),
                    AggResolution(req.resolution_secs)) IN
    [i \in 1..Len(aggs) |-> AggregatedToSnapshot(aggs[i])]

\* out.extend(agg_snapshots); out.extend(raw); out.sort_by_key(|s| s.timestamp)
HistoryMerge(agg_snapshots, raw) ==
    LET out == agg_snapshots \o raw IN
    SortByKey(out, [i \in 1..Len(out) |-> out[i].timestamp])

UnwrapOr(opt, default) == IF opt.some THEN opt.value ELSE default

\* the resolution parameter of a query: absent, or one of the names "1s",
\* "30s", "1m", "5m", or a string of digits, or some other text
ResolutionParam(kind, name, n) == [kind |-> kind, name |-> name, n |-> n]

\* parse_resolution, for a parameter that is present
ParseResolution(r) ==
    IF r.kind = "name"
    THEN Some(CASE r.name = "1s" -> 1
                [] r.name = "30s" -> 30
                [] r.name = "1m" -> RESOLUTION_1MIN
                [] r.name = "5m" -> RESOLUTION_5MIN)
    ELSE IF r.kind = "digits" /\ r.n > 0 /\ r.n <= 3600 THEN Some(r.n)
    ELSE None

\* q.resolution.as_deref().and_then(parse_resolution).unwrap_or(60)
ResolutionSecs(r) ==
    IF r.kind = "absent" THEN RESOLUTION_1MIN
    ELSE UnwrapOr(ParseResolution(r), RESOLUTION_1MIN)

\* fault variant: a check that lets an empty range through
RejectsInvertedOnly(from_ts, to_ts) == from_ts > to_ts

\* if from_ts >= to_ts: 400 "from must be less than to"
RejectsRange(from_ts, to_ts) == from_ts >= to_ts

\* api_history_handler up to the first await of get_history: the 400 check,
\* then the raw read; storeOk: the store answers the query
ApiHistoryRequest(q, storeOk) ==
    /\ histPc = "idle"
    /\ LET now_ms == now
           to_ts == UnwrapOr(q.to, now_ms)
           from_ts == UnwrapOr(q.from, now_ms - 3600 * 1000)
           resolution_secs == ResolutionSecs(q.resolution)
           req == [from_ts |-> from_ts, to_ts |-> to_ts,
                   resolution_secs |-> resolution_secs,
                   raw_cutoff_ts |-> to_ts - config.raw_retention_hours * 3600 * 1000]
       IN  /\ histReq' = req
           /\ histOut' = <<>>
           /\ IF RejectsRange(from_ts, to_ts)
              THEN /\ histStatus' = 400
                   /\ histReads' = 0
                   /\ histRaw' = <<>>
                   /\ histPc' = "responded"
              ELSE IF ~ReadsRaw(req)
              THEN /\ histStatus' = 0
                   /\ histReads' = 0
                   /\ histRaw' = <<>>
                   /\ histPc' = "agg"
              ELSE IF storeOk
              THEN /\ histStatus' = 0
                   /\ histReads' = 1
                   /\ histRaw' = HistoryRawPart(rawTable, req)
                   /\ histPc' = "agg"
              ELSE /\ histStatus' = 500
                   /\ histReads' = 1
                   /\ histRaw' = <<>>
                   /\ histPc' = "responded"
    /\ UNCHANGED <<config, dockerVars, now, nextFlushAt, schedVars, workerVars, queueVars, writerVars,
                   storeVars, channelVars, subVars, sysInfoTable, fnVars>>

\* the rest of get_history and the response
ApiHistoryRespond(storeOk) ==
    /\ histPc = "agg"
    /\ histPc' = "responded"
    /\ histRaw' = <<>>
    /\ IF ~ReadsAggregated(histReq)
       THEN /\ histStatus' = 200
            /\ histOut' = HistoryMerge(<<>>, histRaw)
            /\ UNCHANGED histReads
       ELSE IF storeOk
       THEN /\ histStatus' = 200
            /\ histOut' = HistoryMerge(HistoryAggPart(aggTable, histReq), histRaw)
            /\ histReads' = histReads + 1
       ELSE /\ histStatus' = 500
            /\ histOut' = <<>>
            /\ histReads' = histReads + 1
    /\ UNCHANGED histReq
    /\ UNCHANGED <<config, dockerVars, now, nextFlushAt, schedVars, workerVars, queueVars, writerVars,
                   storeVars, channelVars, subVars, sysInfoTable, fnVars>>

\* the response has been written: the handler's values are dropped
ApiHistoryDone ==
    /\ histPc = "responded"
    /\ histPc' = "idle"
    /\ histReq' = NoRequest
    /\ histOut' = <<>>
    /\ histStatus' = 0
    /\ histReads' = 0
    /\ UNCHANGED histRaw
    /\ UNCHANGED <<config, dockerVars, now, nextFlushAt, schedVars, workerVars, queueVars, writerVars,
                   storeVars, channelVars, subVars, sysInfoTable, fnVars>>

(***************************************************************************)
(* Specifications.                                                         *)
(***************************************************************************)
InitProgram ==
    /\ now = 0
    /\ workerPc = "select"
    /\ pending = NoSnapshot
    /\ nProbeFailures = 0
    /\ shutdownSent = FALSE
    /\ queue = <<>>
    /\ writeTxOpen = TRUE
    /\ enqLog = <<>>
    /\ writerPc = "select"
    /\ buffer = <<>>
    /\ lastFlush = "none"
    /\ savedTotal = 0
    /\ commitFailed = FALSE
    /\ rawTable = <<>>
    /\ bcTail = 0
    /\ bcRing = <<>>
    /\ assembled = <<>>
    /\ bcastLog = <<>>
    /\ lastPublish = "none"
    /\ subPc = [s \in Subs |-> "idle"]
    /\ subNext = [s \in Subs |-> 0]
    /\ subLog = [s \in Subs |-> <<>>]
    /\ connCount = 0
    /\ nextFlushAt = 0
    /\ aggTable = <<>>
    /\ aggPc = "idle"
    /\ aggNowMs = 0
    /\ aggBucketStart = 0
    /\ aggFetched = <<>>
    /\ lastTick = "none"
    /\ nextAggAt = 0
    /\ vacuumRunning = FALSE
    /\ vacuumsDone = 0
    /\ vacPc = "sleep"
    /\ vacChan = 0
    /\ vacWakeAt = config.vacuum_interval_secs * 1000
    /\ sysInfoTable = IF config.priorSystemInfo
                      THEN <<[id |-> 1, data |-> PreviousSystemInfo]>>
                      ELSE <<>>
    /\ histPc = "idle"
    /\ histReq = NoRequest
    /\ histRaw = <<>>
    /\ histOut = <<>>
    /\ histStatus = 0
    /\ histReads = 0
    /\ dockerRunning = {}
    /\ activeStreams = [id \in Containers |-> 0]
    /\ liveStats = {}
    /\ streamTasks = <<>>
    /\ recPc = "idle"
    /\ recLocals = NoLocals
    /\ lastContainers = {}

\* no function is called on its own
InitCommon ==
    /\ InitProgram
    /\ fnPc = "none"
    /\ fnArgs = <<>>
    /\ fnResult = <<>>

\* the pipeline: worker, queue, writer and raw table, with store faults
PipelineConfigs ==
    [flush_rate : 1..MaxFlushRate,
     broadcast_capacity : {1},
     retention_days : {RetentionDays},
     rxKept : BOOLEAN,
     storeFaults : {TRUE},
     timed : {FALSE},
     flush_interval_secs : {DefaultFlushIntervalSecs},
     aggregation_interval_secs : {DefaultAggregationIntervalSecs},
     vacuum_interval_secs : {DefaultVacuumIntervalSecs},
     raw_retention_hours : {DefaultRawRetentionHours},
     minute_retention_hours : {DefaultMinuteRetentionHours},
     maxClockMs : {0},
     maxSnapshots : {MaxSnapshotsPipeline},
     maxProbeFailures : {MaxProbeFailures},
     maxSubscribers : {0},
     priorSystemInfo : {FALSE}]

InitPipeline == config \in PipelineConfigs /\ InitCommon

NextPipeline ==
    \/ \E outcome \in ProbeOutcomes : WorkerTick(outcome)
    \/ WorkerEnqueue
    \/ \E storeOk \in StoreOutcomes : WorkerPrune(storeOk)
    \/ WorkerShutdown
    \/ SendShutdown
    \/ \E storeOk \in StoreOutcomes : WriterRecv(storeOk)
    \/ \E storeOk \in StoreOutcomes : WriterFlushTick(storeOk)
    \/ \E storeOk \in StoreOutcomes : WriterClosed(storeOk)

SpecPipeline == InitPipeline /\ [][NextPipeline]_vars

\* the same tasks with enough snapshots to fill the persistence queue
BackpressureConfigs ==
    [flush_rate : 1..MaxFlushRate,
     broadcast_capacity : {1},
     retention_days : {RetentionDays},
     rxKept : {FALSE},
     storeFaults : {FALSE},
     timed : {FALSE},
     flush_interval_secs : {DefaultFlushIntervalSecs},
     aggregation_interval_secs : {DefaultAggregationIntervalSecs},
     vacuum_interval_secs : {DefaultVacuumIntervalSecs},
     raw_retention_hours : {DefaultRawRetentionHours},
     minute_retention_hours : {DefaultMinuteRetentionHours},
     maxClockMs : {0},
     maxSnapshots : {MaxSnapshotsBackpressure},
     maxProbeFailures : {0},
     maxSubscribers : {0},
     priorSystemInfo : {FALSE}]

InitBackpressure == config \in BackpressureConfigs /\ InitCommon

SpecBackpressure == InitBackpressure /\ [][NextPipeline]_vars

\* the worker publishing to /ws/system subscribers
BroadcastConfigs ==
    [flush_rate : {1},
     broadcast_capacity : 1..MaxBroadcastCapacity,
     retention_days : {RetentionDays},
     rxKept : {FALSE},
     storeFaults : {FALSE},
     timed : {FALSE},
     flush_interval_secs : {DefaultFlushIntervalSecs},
     aggregation_interval_secs : {DefaultAggregationIntervalSecs},
     vacuum_interval_secs : {DefaultVacuumIntervalSecs},
     raw_retention_hours : {DefaultRawRetentionHours},
     minute_retention_hours : {DefaultMinuteRetentionHours},
     maxClockMs : {0},
     maxSnapshots : {MaxSnapshotsBroadcast},
     maxProbeFailures : {0},
     maxSubscribers : {MaxLaggingSubscribers},
     priorSystemInfo : {FALSE}]

InitBroadcast == config \in BroadcastConfigs /\ InitCommon

NextBroadcast ==
    \/ WorkerTick("ok")
    \/ WorkerEnqueue
    \/ \E s \in Subs : SubConnect(s)
    \/ \E s \in Subs, sent \in BOOLEAN : SubWelcome(s, sent)
    \/ \E s \in Subs, outcome \in SendOutcomes : SubRecv(s, outcome)
    \/ \E s \in Subs, sent \in BOOLEAN : SubPing(s, sent)

SpecBroadcast == InitBroadcast /\ [][NextBroadcast]_vars

\* the same tasks with more connections and a channel of one slot
ConnectionsConfigs ==
    [flush_rate : {1},
     broadcast_capacity : {1},
     retention_days : {RetentionDays},
     rxKept : {FALSE},
     storeFaults : {FALSE},
     timed : {FALSE},
     flush_interval_secs : {DefaultFlushIntervalSecs},
     aggregation_interval_secs : {DefaultAggregationIntervalSecs},
     vacuum_interval_secs : {DefaultVacuumIntervalSecs},
     raw_retention_hours : {DefaultRawRetentionHours},
     minute_retention_hours : {DefaultMinuteRetentionHours},
     maxClockMs : {0},
     maxSnapshots : {MaxSnapshotsConnections},
     maxProbeFailures : {0},
     maxSubscribers : {MaxSubscribers},
     priorSystemInfo : {FALSE}]

InitConnections == config \in ConnectionsConfigs /\ InitCommon

SpecConnections == InitConnections /\ [][NextBroadcast]_vars

\* the store under the writer and the aggregation scheduler, on a clock
AggConfigs ==
    [flush_rate : {MaxFlushRate},
     broadcast_capacity : {1},
     retention_days : {RetentionDays},
     rxKept : {FALSE},
     storeFaults : BOOLEAN,
     timed : {TRUE},
     flush_interval_secs : {3600 * MaxClockHours},
     aggregation_interval_secs : {DefaultAggregationIntervalSecs},
     vacuum_interval_secs : {3600},
     raw_retention_hours : {DefaultRawRetentionHours},
     minute_retention_hours : {1},
     maxClockMs : {MaxClockHours * 3600 * 1000},
     maxSnapshots : {MaxSnapshotsAgg},
     maxProbeFailures : {0},
     maxSubscribers : {0},
     priorSystemInfo : {FALSE}]

InitAgg == config \in AggConfigs /\ InitCommon

NextAgg ==
    \/ AdvanceClock
    \/ \E outcome \in ProbeOutcomes : WorkerTick(outcome)
    \/ WorkerEnqueue
    \/ \E storeOk \in StoreOutcomes : WorkerPrune(storeOk)
    \/ \E storeOk \in StoreOutcomes : WriterRecv(storeOk)
    \/ \E storeOk \in StoreOutcomes : WriterFlushTick(storeOk)
    \/ AggTickStart
    \/ \E storeOk \in StoreOutcomes : AggMinRaw(storeOk)
    \/ \E storeOk \in StoreOutcomes : AggFetchRaw(storeOk)
    \/ \E storeOk \in StoreOutcomes : AggSaveMinute(storeOk)
    \/ \E storeOk \in StoreOutcomes : AggDeleteRaw(storeOk)
    \/ \E storeOk \in StoreOutcomes : AggMinMinute(storeOk)
    \/ \E storeOk \in StoreOutcomes : AggFetchMinute(storeOk)
    \/ \E storeOk \in StoreOutcomes : AggSaveFiveMinute(storeOk)
    \/ \E storeOk \in StoreOutcomes : AggDeleteMinute(storeOk)
    \/ \E storeOk \in StoreOutcomes : AggPruneRaw(storeOk)
    \/ \E storeOk \in StoreOutcomes : AggPruneAggregated(storeOk)
    \/ VacWake
    \/ VacSend
    \/ RunVacuumStart
    \/ \E storeOk \in StoreOutcomes : RunVacuumDone(storeOk)

SpecAgg == InitAgg /\ [][NextAgg]_vars

\* the arguments of a call: the rows, a bucket start and a resolution
AggregateCalls(rows) ==
    [rows : rows,
     bucket_start_ts : {60000, 300000},
     resolution_seconds : {RESOLUTION_1MIN, RESOLUTION_5MIN}]

\* the raw snapshot of aggregation_tests.rs: timestamp, cpu.usage_percent, ram.used
TimedSample(ts, cpu_percent, memory_used) ==
    [timestamp |-> ts, cpu |-> cpu_percent, mem |-> memory_used]

TimedSamples ==
    {TimedSample(60000, 10, 100), TimedSample(60001, 20, 201),
     TimedSample(60002, 30, 300), TimedSample(119999, 0, 0)}

\* downsample_snapshots called, as get_history calls it, on the raw part of
\* fnArgs
CallDownsampleSnapshots ==
    /\ fnPc = "ready_downsample"
    /\ fnArgs.resolution_secs > 1 /\ fnArgs.raw # <<>>
    /\ fnPc' = "downsampled"
    /\ fnResult' = DownsampleSnapshots(fnArgs.raw, fnArgs.resolution_secs * 1000)
    /\ UNCHANGED <<fnArgs, config, dockerVars, now, nextFlushAt, schedVars, workerVars, queueVars,
                   writerVars, storeVars, channelVars, subVars, sysInfoTable, histVars>>

\* timestamps on both sides of the 2-s, 5-s and 60-s bucket bounds
DownsampleStamps == {0, 1999, 2000, 4999, 5000, 60000}

\* what get_raw_snapshots_by_time_range returns for rows with these
\* timestamps: snapshots ascending by timestamp, rows of equal timestamp in
\* insertion order
RawPartOf(stamps) ==
    [i \in 1..Len(stamps) |-> ParseSnapshotRow([id |-> i, timestamp |-> stamps[i]])]

RawParts ==
    {RawPartOf(stamps) : stamps \in
        {q \in SeqsUpTo(DownsampleStamps, MaxDownsampleRows) :
            \A i \in 1..(Len(q) - 1) : q[i] <= q[i + 1]}}

\* downsample_snapshots on its own, on every ascending raw part of a few rows
InitDownsample ==
    /\ config \in {c \in BackpressureConfigs : c.flush_rate = 1}
    /\ InitProgram
    /\ fnPc = "ready_downsample"
    /\ fnArgs \in [raw : RawParts, resolution_secs : {2, 5, 60}]
    /\ fnResult = <<>>

SpecDownsample == InitDownsample /\ [][CallDownsampleSnapshots]_vars

\* rows_affected of a DELETE that left `after` of `before`
RowsAffected(before, after) == Len(before) - Len(after)

\* delete_raw_range called on the raw table of fnArgs
CallDeleteRawRange(from_ts, to_ts) ==
    /\ fnPc = "ready_delete"
    /\ fnPc' = "delete_raw_range"
    /\ LET after == DeleteRawRange(fnArgs.raw, from_ts, to_ts) IN
       fnResult' = [from_ts |-> from_ts, to_ts |-> to_ts, resolution_seconds |-> 0,
                    raw |-> after, agg |-> fnArgs.agg,
                    deleted |-> RowsAffected(fnArgs.raw, after)]
    /\ UNCHANGED <<fnArgs, config, dockerVars, now, nextFlushAt, schedVars, workerVars, queueVars,
                   writerVars, storeVars, channelVars, subVars, sysInfoTable, histVars>>

\* delete_aggregated_range called on the aggregated table of fnArgs
CallDeleteAggregatedRange(from_ts, to_ts, resolution_seconds) ==
    /\ fnPc = "ready_delete"
    /\ fnPc' = "delete_aggregated_range"
    /\ LET after == DeleteAggregatedRange(fnArgs.agg, from_ts, to_ts, resolution_seconds) IN
       fnResult' = [from_ts |-> from_ts, to_ts |-> to_ts,
                    resolution_seconds |-> resolution_seconds,
                    raw |-> fnArgs.raw, agg |-> after,
                    deleted |-> RowsAffected(fnArgs.agg, after)]
    /\ UNCHANGED <<fnArgs, config, dockerVars, now, nextFlushAt, schedVars, workerVars, queueVars,
                   writerVars, storeVars, channelVars, subVars, sysInfoTable, histVars>>

\* prune_old_data called at now_ms on the raw table of fnArgs; it returns ()
CallPruneOldData(now_ms) ==
    /\ fnPc = "ready_delete"
    /\ fnPc' = "prune_old_data"
    /\ fnResult' = [from_ts |-> 0, to_ts |-> now_ms - RetentionMs, resolution_seconds |-> 0,
                    raw |-> PruneOldData(fnArgs.raw, now_ms), agg |-> fnArgs.agg,
                    deleted |-> 0]
    /\ UNCHANGED <<fnArgs, config, dockerVars, now, nextFlushAt, schedVars, workerVars, queueVars,
                   writerVars, storeVars, channelVars, subVars, sysInfoTable, histVars>>

\* prune_aggregated_old_data called at now_ms on the aggregated table of fnArgs
CallPruneAggregatedOldData(now_ms) ==
    /\ fnPc = "ready_delete"
    /\ fnPc' = "prune_aggregated_old_data"
    /\ LET after == PruneAggregatedOldData(fnArgs.agg, now_ms) IN
       fnResult' = [from_ts |-> 0, to_ts |-> now_ms - RetentionMs, resolution_seconds |-> 0,
                    raw |-> fnArgs.raw, agg |-> after,
                    deleted |-> RowsAffected(fnArgs.agg, after)]
    /\ UNCHANGED <<fnArgs, config, dockerVars, now, nextFlushAt, schedVars, workerVars, queueVars,
                   writerVars, storeVars, channelVars, subVars, sysInfoTable, histVars>>

\* the timestamps of history_repo_tests.rs, and the bounds handed to a delete
DeleteStamps == {1000, 2000, 3000}
DeleteBounds == DeleteStamps \cup {4000}

\* the clock of a prune: the retention cutoff falls on a row's timestamp, or
\* just after it
PruneClocks == {RetentionMs + 2000, RetentionMs + 2001}

DeleteRawRows == {[id |-> ts \div 1000, timestamp |-> ts] : ts \in DeleteStamps}

DeleteAggregatedRows ==
    [created_at : DeleteStamps, resolution_seconds : {RESOLUTION_1MIN, RESOLUTION_5MIN}]

\* the container streams and their reconciliation
InitDocker ==
    /\ config \in {c \in BackpressureConfigs : c.flush_rate = 1}
    /\ InitCommon

SpecDocker == InitDocker /\ [][NextDocker]_vars

\* the deletes of the store on their own, on every pair of small tables
InitDelete ==
    /\ config \in {c \in BackpressureConfigs : c.flush_rate = 1}
    /\ InitProgram
    /\ fnPc = "ready_delete"
    /\ fnArgs \in [raw : SeqsUpTo(DeleteRawRows, MaxDeleteRows),
                   agg : SeqsUpTo(DeleteAggregatedRows, MaxDeleteRows)]
    /\ fnResult = None

NextDelete ==
    \/ \E from_ts, to_ts \in DeleteBounds : CallDeleteRawRange(from_ts, to_ts)
    \/ \E from_ts, to_ts \in DeleteBounds :
           \E resolution_seconds \in {RESOLUTION_1MIN, RESOLUTION_5MIN} :
               CallDeleteAggregatedRange(from_ts, to_ts, resolution_seconds)
    \/ \E now_ms \in PruneClocks : CallPruneOldData(now_ms)
    \/ \E now_ms \in PruneClocks : CallPruneAggregatedOldData(now_ms)

SpecDelete == InitDelete /\ [][NextDelete]_vars

\* aggregate_snapshots on its own, on no snapshot and on every list of a few
InitCallSnapshots ==
    /\ config \in {c \in BackpressureConfigs : c.flush_rate = 1}
    /\ InitProgram
    /\ fnPc = "ready_snapshots"
    /\ fnArgs \in AggregateCalls(SeqsUpTo(TimedSamples, MaxAggregateRows))
    /\ fnResult = None

SpecCallSnapshots == InitCallSnapshots /\ [][CallAggregateSnapshots]_vars

\* a 1-minute row
OneMin(created_at, cpu, mem) ==
    [created_at |-> created_at,
     resolution_seconds |-> RESOLUTION_1MIN,
     cpu_load_avg |-> Frac(cpu[1]),
     cpu_load_min |-> Frac(cpu[2]),
     cpu_load_max |-> Frac(cpu[3]),
     memory_used_avg |-> mem[1],
     memory_used_min |-> mem[2],
     memory_used_max |-> mem[3]]

\* the one_min rows of aggregation_tests.rs: min and max one (ten) off the average
TestOneMin(created_at, cpu_avg, mem_avg) ==
    OneMin(created_at, <<cpu_avg, cpu_avg - 1, cpu_avg + 1>>,
           <<mem_avg, mem_avg - 10, mem_avg + 10>>)

FiveOneMinRows ==
    <<TestOneMin(300000, 10, 100), TestOneMin(360000, 20, 200),
      TestOneMin(420000, 30, 300), TestOneMin(480000, 40, 400),
      TestOneMin(540000, 50, 500)>>

\* 1-minute rows: two of the test, one whose extremes are widest while its
\* averages are lowest, one with an odd memory average
OneMinRows ==
    {TestOneMin(300000, 10, 100), TestOneMin(360000, 20, 200),
     OneMin(420000, <<5, 0, 99>>, <<50, 1, 900>>),
     OneMin(480000, <<15, 15, 15>>, <<151, 151, 151>>)}

\* aggregate_aggregated_snapshots on its own, on no row, on every list of a
\* few rows and on the five rows of the test
InitCallAggregated ==
    /\ config \in {c \in BackpressureConfigs : c.flush_rate = 1}
    /\ InitProgram
    /\ fnPc = "ready_rows"
    /\ fnArgs \in AggregateCalls(SeqsUpTo(OneMinRows, MaxAggregateRows) \cup {FiveOneMinRows})
    /\ fnResult = None

SpecCallAggregated == InitCallAggregated /\ [][CallAggregateAggregated]_vars

\* a ContainerStats whose counters and gauges all differ, scaled by k
ContainerObservation(id, name, k, state) ==
    [id |-> id,
     name |-> name,
     cpu_percent |-> Frac(k),
     memory_usage_bytes |-> 2 * k + 1,
     memory_limit_bytes |-> 4 * k + 2,
     state |-> state,
     network_rx_bytes |-> k,
     network_tx_bytes |-> k + 1,
     network_rx_packets |-> 2 * k,
     network_tx_packets |-> 3 * k + 1,
     block_read_bytes |-> 5 * k,
     block_write_bytes |-> 5 * k + 2,
     cpu_throttled_periods |-> 7 * k,
     cpu_throttled_time_ns |-> 7 * k + 3,
     cpu_kernel_percent |-> Frac(3 * k),
     cpu_user_percent |-> Frac(3 * k + 1)]

\* the containers of a snapshot: one container; the same container renamed
\* and stopped beside a second one; the second one, restarted under a name
\* that sorts last, listed before the first; the second one alone, under the
\* name the first one has in the first list
ContainerLists ==
    {<<ContainerObservation(1, 2, 1, "running")>>,
     <<ContainerObservation(1, 1, 2, "exited"), ContainerObservation(2, 1, 4, "paused")>>,
     <<ContainerObservation(2, 3, 0, "running"), ContainerObservation(1, 2, 1, "running")>>,
     <<ContainerObservation(2, 2, 3, "running")>>}

\* the container lists of the snapshots of a minute bucket that is not empty
ContainerBuckets == SeqsUpTo(ContainerLists, MaxContainerRows) \ {<<>>}

\* two minute buckets of snapshots with containers, aggregated, then rolled up
InitContainers ==
    /\ config \in {c \in BackpressureConfigs : c.flush_rate = 1}
    /\ InitProgram
    /\ fnPc = "ready_containers"
    /\ fnArgs \in {<<first, second>> : first \in ContainerBuckets, second \in ContainerBuckets}
    /\ fnResult = <<>>

NextContainers ==
    \/ AggregateContainersMinutes
    \/ AggregateContainersFiveMinutes

SpecContainers == InitContainers /\ [][NextContainers]_vars

\* the scheduler with 1-minute rows kept an hour longer than raw rows, over a
\* store that does not fail
RollupConfigs ==
    {[c EXCEPT !.maxSnapshots = MaxSnapshotsRollup,
               !.minute_retention_hours = c.raw_retention_hours + 1,
               !.vacuum_interval_secs = MaxRollupHours * 1800,
               !.maxClockMs = MaxRollupHours * 3600 * 1000] :
        c \in {a \in AggConfigs : ~a.storeFaults}}

InitRollup == config \in RollupConfigs /\ InitCommon

SpecRollup == InitRollup /\ [][NextAgg]_vars

\* the scheduler with 1-minute rows kept for less time than raw rows, which
\* validate accepts, on a clock whose aggregation ticks do not fall on a
\* 5-minute bound: a pass every 122 minutes, a flush tick every 3 minutes
ShortMinuteConfigs ==
    {[c EXCEPT !.raw_retention_hours = 2,
               !.minute_retention_hours = 1,
               !.aggregation_interval_secs = 7320,
               !.flush_interval_secs = 180,
               !.vacuum_interval_secs = 3660,
               !.maxClockMs = 7320 * 1000] :
        c \in {a \in AggConfigs : ~a.storeFaults}}

InitShortMinutes == config \in ShortMinuteConfigs /\ InitCommon

SpecShortMinutes == InitShortMinutes /\ [][NextAgg]_vars

\* the scheduler over a store that can fail any statement of an aggregation
\* tick, on a clock that reaches the tick after the first tick with rows to
\* aggregate
RetryConfigs ==
    {[c EXCEPT !.maxSnapshots = MaxSnapshotsSched,
               !.vacuum_interval_secs = MaxRollupHours * 1800,
               !.maxClockMs = MaxRollupHours * 3600 * 1000] :
        c \in {a \in AggConfigs : ~a.storeFaults}}

InitRetry == config \in RetryConfigs /\ InitCommon

NextRetry ==
    \/ AdvanceClock
    \/ \E outcome \in ProbeOutcomes : WorkerTick(outcome)
    \/ WorkerEnqueue
    \/ WorkerPrune(TRUE)
    \/ WriterRecv(TRUE)
    \/ WriterFlushTick(TRUE)
    \/ AggTickStart
    \/ \E storeOk \in BOOLEAN : AggMinRaw(storeOk)
    \/ \E storeOk \in BOOLEAN : AggFetchRaw(storeOk)
    \/ \E storeOk \in BOOLEAN : AggSaveMinute(storeOk)
    \/ \E storeOk \in BOOLEAN : AggDeleteRaw(storeOk)
    \/ \E storeOk \in BOOLEAN : AggMinMinute(storeOk)
    \/ \E storeOk \in BOOLEAN : AggFetchMinute(storeOk)
    \/ \E storeOk \in BOOLEAN : AggSaveFiveMinute(storeOk)
    \/ \E storeOk \in BOOLEAN : AggDeleteMinute(storeOk)
    \/ \E storeOk \in BOOLEAN : AggPruneRaw(storeOk)
    \/ \E storeOk \in BOOLEAN : AggPruneAggregated(storeOk)
    \/ VacWake
    \/ VacSend
    \/ RunVacuumStart
    \/ RunVacuumDone(TRUE)

SpecRetry == InitRetry /\ [][NextRetry]_vars

\* the scheduler over a store that does not fail, and run_one_tick called on
\* its own twice in a row
RerunConfigs ==
    {[c EXCEPT !.maxSnapshots = MaxSnapshotsRerun] : c \in {a \in AggConfigs : ~a.storeFaults}}

InitRerun == config \in RerunConfigs /\ InitCommon

NextRerun ==
    \/ NextAgg
    \/ RunBackfill

SpecRerun == InitRerun /\ [][NextRerun]_vars

\* the scheduler with fewer snapshots in the store
SchedConfigs ==
    {[c EXCEPT !.maxSnapshots = MaxSnapshotsSched] : c \in AggConfigs}

InitSched == config \in SchedConfigs /\ InitCommon

SpecSched == InitSched /\ [][NextAgg]_vars

\* the writer over a database file that a previous run may have written
StoreConfigs ==
    {[c EXCEPT !.rxKept = FALSE,
               !.maxSnapshots = MaxSnapshotsStore,
               !.maxProbeFailures = 0,
               !.priorSystemInfo = prior] :
        c \in PipelineConfigs, prior \in BOOLEAN}

InitStore == config \in StoreConfigs /\ InitCommon

SpecStore == InitStore /\ [][NextPipeline]_vars

\* the pipeline over a store that is also called with an empty batch
NextSaveEmpty ==
    \/ NextPipeline
    \/ \E storeOk \in StoreOutcomes : SaveSnapshotsEmpty(storeOk)

SpecSaveEmpty == InitStore /\ [][NextSaveEmpty]_vars

\* blob columns written and read back, for every payload and both version tags
InitBlob ==
    /\ config \in {c \in BackpressureConfigs : c.flush_rate = 1}
    /\ InitProgram
    /\ fnPc = "ready"
    /\ fnArgs \in [version : {BLOB_VERSION, BLOB_VERSION_SYSTEM_DYNAMIC}, payload : Payloads]
    /\ fnResult = <<>>

NextBlob ==
    \/ WriteBlob
    \/ WriteLegacyBlob
    \/ ReadBlob

SpecBlob == InitBlob /\ [][NextBlob]_vars

\* rows read back, with at most one damaged blob column
InitRow ==
    /\ config \in {c \in BackpressureConfigs : c.flush_rate = 1}
    /\ InitProgram
    /\ fnPc = "ready_row"
    /\ fnArgs \in [created_at : {0, MS_PER_MINUTE},
                   cpu_load : {50},
                   memory_used : {1024},
                   containers : Values,
                   storage : Values,
                   network : Values,
                   system : Values,
                   systemLayout : {"dynamic", "full"},
                   corrupt : {"none"} \cup BlobColumns]
    /\ fnResult = <<>>

NextRow ==
    \/ StoreRow
    \/ ParseRow

SpecRow == InitRow /\ [][NextRow]_vars

\* the cpu load (percent) and memory (bytes) of a sampled snapshot
Samples == {[cpu |-> 0, mem |-> 1], [cpu |-> 1, mem |-> 2], [cpu |-> 100, mem |-> 4]}

\* the raw rows of a minute bucket that is not empty
Buckets == SeqsUpTo(Samples, MaxBucketRows) \ {<<>>}

\* minute buckets aggregated, then rolled up
InitAggregate ==
    /\ config \in {c \in BackpressureConfigs : c.flush_rate = 1}
    /\ InitProgram
    /\ fnPc = "ready_buckets"
    /\ fnArgs \in SeqsUpTo(Buckets, MaxMinuteRows) \ {<<>>}
    /\ fnResult = <<>>

NextAggregate ==
    \/ AggregateMinutes
    \/ AggregateFiveMinutes

SpecAggregate == InitAggregate /\ [][NextAggregate]_vars

\* GET /api/history beside the pipeline and the aggregation scheduler
HistoryConfigs ==
    [flush_rate : {1},
     broadcast_capacity : {1},
     retention_days : {RetentionDays},
     rxKept : {FALSE},
     storeFaults : {FALSE},
     timed : {TRUE},
     flush_interval_secs : {3600 * (MaxHistoryHours + 1)},
     aggregation_interval_secs : {DefaultAggregationIntervalSecs},
     vacuum_interval_secs : {3600 * (MaxHistoryHours + 1)},
     raw_retention_hours : {DefaultRawRetentionHours},
     minute_retention_hours : {1},
     maxClockMs : {MaxHistoryHours * 3600 * 1000},
     maxSnapshots : {MaxSnapshotsHistory},
     maxProbeFailures : {0},
     maxSubscribers : {0},
     priorSystemInfo : {FALSE}]

InitHistory == config \in HistoryConfigs /\ InitCommon

\* the queries a client sends at this moment
HistoryQueries ==
    [from : {None, Some(now - 2 * 3600 * 1000)},
     to : {None, Some(now - 2 * 3600 * 1000)},
     resolution : {ResolutionParam("absent", "", 0), ResolutionParam("name", "1s", 0),
                   ResolutionParam("digits", "", 300)}]

NextHistory ==
    \/ AdvanceClock
    \/ WorkerTick("ok")
    \/ WorkerEnqueue
    \/ \E storeOk \in StoreOutcomes : WriterRecv(storeOk)
    \/ \E storeOk \in StoreOutcomes : WriterFlushTick(storeOk)
    \/ AggTickStart
    \/ \E storeOk \in StoreOutcomes : AggMinRaw(storeOk)
    \/ \E storeOk \in StoreOutcomes : AggFetchRaw(storeOk)
    \/ \E storeOk \in StoreOutcomes : AggSaveMinute(storeOk)
    \/ \E storeOk \in StoreOutcomes : AggDeleteRaw(storeOk)
    \/ \E storeOk \in StoreOutcomes : AggMinMinute(storeOk)
    \/ \E storeOk \in StoreOutcomes : AggFetchMinute(storeOk)
    \/ \E storeOk \in StoreOutcomes : AggSaveFiveMinute(storeOk)
    \/ \E storeOk \in StoreOutcomes : AggDeleteMinute(storeOk)
    \/ \E storeOk \in StoreOutcomes : AggPruneRaw(storeOk)
    \/ \E storeOk \in StoreOutcomes : AggPruneAggregated(storeOk)
    \/ \E q \in HistoryQueries, storeOk \in StoreOutcomes : ApiHistoryRequest(q, storeOk)
    \/ \E storeOk \in StoreOutcomes : ApiHistoryRespond(storeOk)
    \/ ApiHistoryDone

SpecHistory == InitHistory /\ [][NextHistory]_vars

\* the same tasks over a store whose statements can fail, with an aggregation
\* pass every half hour
HistoryFaultConfigs ==
    {[c EXCEPT !.storeFaults = TRUE,
               !.maxSnapshots = MaxSnapshotsDuplicates,
               !.aggregation_interval_secs = 1800,
               !.flush_interval_secs = 1800 * (MaxDuplicateTicks + 1),
               !.vacuum_interval_secs = 1800 * (MaxDuplicateTicks + 1),
               !.maxClockMs = MaxDuplicateTicks * 1800 * 1000] :
        c \in HistoryConfigs}

InitHistoryFaults == config \in HistoryFaultConfigs /\ InitCommon

SpecHistoryFaults == InitHistoryFaults /\ [][NextHistory]_vars

\* the pipeline under the scheduling the runtime gives: a task that is ready is
\* polled, and a select! branch that is ready again and again is taken
FairPipeline ==
    /\ SF_vars(WorkerShutdown)
    /\ WF_vars(WorkerEnqueue)
    /\ WF_vars(\E storeOk \in StoreOutcomes : WriterRecv(storeOk))
    /\ WF_vars(\E storeOk \in StoreOutcomes : WriterClosed(storeOk))

SpecPipelineFair == SpecPipeline /\ FairPipeline

(***************************************************************************)
(* Claims.                                                                 *)
(***************************************************************************)
Ids(seq) == [i \in 1..Len(seq) |-> seq[i].id]

\* the snapshot the writer took from the queue in this step, if any
ReceivedInStep == IF Len(queue') < Len(queue) THEN <<Head(queue)>> ELSE <<>>

\* the channel is closed and drained: the writer's next event is recv() = None
WriterAtFinalFlush == queue = <<>> /\ ~writeTxOpen

\* C1: a flush whose store transaction fails leaves every buffered snapshot in
\* the buffer, in order, leaves snapshots_saved_total and the raw table as
\* they were, and inside the loop the writer stays in the loop.
C1_FailedFlushKeepsBuffer ==
    [][lastFlush' = "failed" =>
          /\ buffer' = buffer \o ReceivedInStep
          /\ savedTotal' = savedTotal
          /\ rawTable' = rawTable
          /\ (writerPc = "select" /\ ~WriterAtFinalFlush => writerPc' = "select")]_vars

C1_Witness ==
    /\ lastFlush = "failed"
    /\ Len(buffer) = 2
    /\ writerPc = "select"
    /\ savedTotal = 0

\* C2: once shutdown is signalled the worker ends, and once the worker has
\* ended the writer ends; the writer ends only after the worker dropped its
\* sender and the queue is drained; and when the writer has ended and its
\* final flush did not fail, every enqueued snapshot is in the raw table.
C2_DrainedAtExit ==
    writerPc = "done" =>
        /\ workerPc = "done"
        /\ ~writeTxOpen
        /\ queue = <<>>
        /\ (lastFlush # "failed" => Ids(rawTable) = enqLog)

C2_ShutdownDrains ==
    /\ []C2_DrainedAtExit
    /\ (shutdownSent ~> workerPc = "done")
    /\ (workerPc = "done" ~> writerPc = "done")

C2_Witness ==
    /\ writerPc = "done"
    /\ config.flush_rate = 2
    /\ lastFlush = "ok"
    /\ Len(enqLog) = 3
    /\ Ids(rawTable) = enqLog

\* C3: a tick in which a probe fails publishes nothing: the broadcast channel,
\* the persistence queue and the worker's pending send are unchanged, and the
\* worker is back at its select for the next tick.
C3_ProbeFailureSkipsTick ==
    [][nProbeFailures' # nProbeFailures =>
          /\ UNCHANGED <<channelVars, queueVars, pending>>
          /\ workerPc' = "select"]_vars

C3_Witness ==
    /\ nProbeFailures = 1
    /\ Len(assembled) = 2
    /\ Len(enqLog) = 2
    /\ workerPc = "select"

\* C4: the persistence queue never holds more than max(2 * flush_rate, 32)
\* snapshots; with the queue full the worker's send does not complete; and no
\* assembled snapshot is lost: each is committed, buffered, queued or pending.
C4_Backpressure ==
    /\ Len(queue) <= Max(2 * config.flush_rate, 32)
    /\ (workerPc = "send" /\ Len(queue) = Max(2 * config.flush_rate, 32)
            /\ writerPc # "done"
          => ~ENABLED WorkerEnqueue)
    /\ assembled = Ids(rawTable) \o Ids(buffer) \o Ids(queue)
                     \o (IF workerPc = "send" THEN <<pending.id>> ELSE <<>>)

C4_Witness ==
    /\ workerPc = "send"
    /\ Len(queue) = 32
    /\ pending.id = 33

\* C5: every assembled snapshot is handed to the broadcast channel once and
\* then to the persistence queue once, in the order assembled, whether or not
\* the broadcast publish found a receiver.
C5_BothSinksOnce ==
    /\ bcastLog = assembled
    /\ enqLog = IF workerPc = "send"
                THEN SubSeq(assembled, 1, Len(assembled) - 1)
                ELSE assembled
    /\ (workerPc = "send" => pending.id = assembled[Len(assembled)])

C5_Witness ==
    /\ lastPublish = "no_receivers"
    /\ Len(assembled) = 2
    /\ enqLog = assembled
    /\ bcTail = 0

(***************************************************************************)
(* Claims about /ws/system.                                                *)
(***************************************************************************)
\* connection s takes the rx.recv() branch in this step
RecvStep(s) == subPc[s] = "loop" /\ subNext'[s] # subNext[s]

\* values published since the receiver's position
Behind(s) == bcTail - subNext[s]

Lagged(n) == [kind |-> "lagged", n |-> n]

C8_CounterMatchesTasks ==
    /\ connCount = Cardinality({s \in Subs : subPc[s] # "idle"})
    /\ connCount >= 0

\* one connection ended after receiving, the other is still streaming
C8_Witness ==
    /\ connCount = 1
    /\ subPc[1] = "idle"
    /\ subNext[1] > 0
    /\ subPc[2] = "loop"

(***************************************************************************)
(* Claims about the aggregation scheduler.                                 *)
(***************************************************************************)
\* run_one_tick returns Ok(()) in this step
TickCompletes == aggPc # "idle" /\ aggPc' = "idle" /\ lastTick' = "ok"

\* the raw row lies in a minute bucket that ends at or before cutoff_raw
InAgedBucket(row, cutoff_raw) ==
    BucketFloor(row.timestamp, MS_PER_MINUTE) + MS_PER_MINUTE <= cutoff_raw

\* C9: when an aggregation tick completes, the raw table holds no row in a
\* minute bucket b with b + 60_000 <= cutoff_raw of that tick, whatever the
\* writer committed while the tick ran.
C9_NoAgedRawAfterTick ==
    [][TickCompletes =>
          \A i \in 1..Len(rawTable') :
              ~InAgedBucket(rawTable'[i], CutoffRaw(aggNowMs))]_vars

\* C10: VACUUM and an aggregation tick are never in progress together.
C10_VacuumTickExclusive == ~(vacuumRunning /\ aggPc # "idle")

\* a VACUUM completed, a tick is between two of its store calls, and the next
\* VACUUM request waits in the channel
C10_Witness ==
    /\ vacuumsDone >= 1
    /\ aggPc = "a_delete"
    /\ vacChan = 1
    /\ ~vacuumRunning


\* GET /api/history has answered 200 and the response is still held
HistoryResponded == histPc = "responded" /\ histStatus = 200

FromSource(source) == {i \in 1..Len(histOut) : histOut[i].source = source}

\* C11: the list get_history returns is sorted by timestamp; every entry taken
\* from the aggregated table has a timestamp below raw_cutoff and every entry
\* taken from the raw table a timestamp at or above it, so that no timestamp
\* comes from both sources
C11_HistoryPartitioned ==
    HistoryResponded =>
        /\ \A i, j \in 1..Len(histOut) :
               i < j => histOut[i].timestamp <= histOut[j].timestamp
        /\ \A i \in FromSource("agg") : histOut[i].timestamp < histReq.raw_cutoff_ts
        /\ \A i \in FromSource("raw") : histOut[i].timestamp >= histReq.raw_cutoff_ts
        /\ \A i \in FromSource("agg"), j \in FromSource("raw") :
               histOut[i].timestamp # histOut[j].timestamp

\* a response that holds entries of both sources
C11_Witness ==
    /\ HistoryResponded
    /\ FromSource("agg") # {}
    /\ FromSource("raw") # {}


\* the request spans the raw cutoff at resolution 60: from = now - 2 h, to = now
SpanningQuery ==
    /\ histReq.to_ts = now
    /\ histReq.from_ts = now - 2 * 3600 * 1000
    /\ histReq.resolution_secs = RESOLUTION_1MIN

\* C12: the response to a query spanning the raw cutoff at resolution 60 holds
\* the 1-minute aggregated rows of [now - 2 h, now - 1 h) followed by the raw
\* rows of [now - 1 h, now) downsampled to one per 60-second bucket, with
\* strictly ascending timestamps, whatever the pipeline has left in the store
C12_SpanningQueryStrictlyAscending ==
    (HistoryResponded /\ SpanningQuery) =>
        \A i, j \in 1..Len(histOut) :
            i < j => histOut[i].timestamp < histOut[j].timestamp


\* C13: a request with from >= to is answered 400 without a store query, and
\* every request with from < to reaches the store
C13_InvalidRangeRejected ==
    /\ histPc = "responded" =>
          /\ histReq.from_ts >= histReq.to_ts => histStatus = 400 /\ histReads = 0
          /\ histReq.from_ts < histReq.to_ts => histStatus # 400 /\ histReads >= 1
    /\ histPc = "agg" => histReq.from_ts < histReq.to_ts

\* a rejected request with from = to
C13_Witness ==
    /\ histPc = "responded"
    /\ histStatus = 400
    /\ histReq.from_ts = histReq.to_ts
    /\ rawTable # <<>>


\* the batch a flush of this step hands to save_snapshots
BatchInStep == buffer \o ReceivedInStep

SystemInfoRow(data) == [id |-> 1, data |-> data]

\* C14: save_snapshots is atomic: either the system_info upsert and every
\* snapshot of the batch are committed together, or, on an error at any step,
\* none of them is visible and the raw table and system_info are as before
C14_SaveSnapshotsAtomic ==
    [][/\ lastFlush' = "failed" =>
              rawTable' = rawTable /\ sysInfoTable' = sysInfoTable
       /\ (rawTable' # rawTable \/ sysInfoTable' # sysInfoTable) =>
              /\ lastFlush' = "ok"
              /\ BatchInStep # <<>>
              /\ rawTable' = rawTable \o BatchInStep
              /\ sysInfoTable' = <<SystemInfoRow(CurrentSystemInfo)>>]_vars

\* a batch of two failed over a database a previous run wrote: the row of the
\* previous run is still there
C14_Witness ==
    /\ lastFlush = "failed"
    /\ Len(buffer) = 2
    /\ sysInfoTable = <<SystemInfoRow(PreviousSystemInfo)>>
    /\ rawTable = <<>>

\* C15: system_info holds at most one row, with id 1, and once a non-empty
\* batch has been committed its content is the SystemInfo of the last
\* committed batch
C15_SingleSystemInfoRow ==
    /\ Len(sysInfoTable) <= 1
    /\ \A i \in 1..Len(sysInfoTable) : sysInfoTable[i].id = 1
    /\ rawTable # <<>> => sysInfoTable = <<SystemInfoRow(CurrentSystemInfo)>>
    /\ rawTable = <<>> =>
          sysInfoTable = IF config.priorSystemInfo
                         THEN <<SystemInfoRow(PreviousSystemInfo)>> ELSE <<>>

\* two batches committed over the row of a previous run
C15_Witness ==
    /\ config.priorSystemInfo
    /\ config.flush_rate = 1
    /\ Len(rawTable) >= 2
    /\ sysInfoTable = <<SystemInfoRow(CurrentSystemInfo)>>


\* C20: a successful flush adds exactly the size of the batch to
\* snapshots_saved_total and empties the buffer, so that the counter equals
\* the number of raw rows the writer has committed
C20_SavedTotalCountsRows ==
    [][/\ rawTable' # rawTable =>
              /\ lastFlush' = "ok"
              /\ savedTotal' = savedTotal + Len(BatchInStep)
              /\ Len(rawTable') = Len(rawTable) + Len(BatchInStep)
              /\ buffer' = <<>>
       /\ rawTable' = rawTable => savedTotal' = savedTotal
       /\ savedTotal' = Len(rawTable')]_vars

\* a batch of two committed after a batch of one
C20_Witness ==
    /\ lastFlush = "ok"
    /\ config.flush_rate = 2
    /\ savedTotal = 3
    /\ buffer = <<>>


\* C16: blob_payload(with_version_prefix(v, p), v) = p for every payload p and
\* both version tags, the empty payload and the payloads whose first byte is
\* v included
C16_PrefixRoundTrip ==
    fnPc = "read" => fnResult.payload = fnArgs.payload

\* a payload that itself begins with the version byte, read back
C16_Witness ==
    /\ fnPc = "read"
    /\ fnArgs.payload # <<>>
    /\ fnArgs.payload[1] = fnArgs.version
    /\ fnResult.payload = fnArgs.payload

\* C17: a legacy blob (no prefix) is decoded as the v1 blob of the same payload
\* is: the bytes handed to the decoder for the legacy blob p are those handed
\* to it for [1] ++ p, for every payload p
C17_LegacyReadsAsV1 ==
    (fnPc = "read_legacy" /\ fnArgs.version = BLOB_VERSION) =>
        fnResult.payload = BlobPayload(WithVersionPrefix(BLOB_VERSION, fnArgs.payload),
                                       BLOB_VERSION)


\* what a column of the snapshot is expected to hold after the read
ExpectedColumn(column, value) == IF fnArgs.corrupt = column THEN DefaultValue ELSE value

\* C18: a blob column that does not decode makes the row read succeed with the
\* default (empty) value for that column only and every other field as it
\* was written; a decode failure never fails the read
C18_UndecodableColumnDefaults ==
    fnPc = "parsed" =>
        /\ fnResult.snapshot.ok
        /\ fnResult.snapshot.timestamp = fnArgs.created_at
        /\ fnResult.snapshot.cpu_usage_percent = fnArgs.cpu_load
        /\ fnResult.snapshot.ram_used = fnArgs.memory_used
        /\ fnResult.snapshot.containers = ExpectedColumn("container_data", fnArgs.containers)
        /\ fnResult.snapshot.storage = ExpectedColumn("storage_data", fnArgs.storage)
        /\ fnResult.snapshot.network = ExpectedColumn("network_data", fnArgs.network)
        /\ fnResult.snapshot.system = ExpectedColumn("system_data", fnArgs.system)

\* a row whose container blob is damaged, read back with the other columns
\* intact
C18_Witness ==
    /\ fnPc = "parsed"
    /\ fnArgs.corrupt = "container_data"
    /\ fnArgs.containers # <<>>
    /\ fnResult.snapshot.ok
    /\ fnResult.snapshot.containers = <<>>
    /\ fnResult.snapshot.storage # <<>>
    /\ fnResult.snapshot.system # <<>>


\* the aggregated rows computed so far
AggregatedRows ==
    IF fnPc \in {"minutes", "five_minutes"}
    THEN {fnResult[i] : i \in 1..Len(fnResult)} ELSE {}

\* C19: every aggregated row, of resolution 60 and of resolution 300, has
\* cpu_load_min <= cpu_load_avg <= cpu_load_max and
\* memory_used_min <= memory_used_avg <= memory_used_max
C19_AverageBetweenMinAndMax ==
    \A r \in AggregatedRows :
        /\ FracLeq(r.cpu_load_min, r.cpu_load_avg)
        /\ FracLeq(r.cpu_load_avg, r.cpu_load_max)
        /\ r.memory_used_min <= r.memory_used_avg
        /\ r.memory_used_avg <= r.memory_used_max

\* a 5-minute row whose averages lie strictly between its extremes, the
\* memory average being a truncated quotient
C19_Witness ==
    /\ fnPc = "five_minutes"
    /\ \E r \in AggregatedRows :
          /\ r.resolution_seconds = RESOLUTION_5MIN
          /\ ~FracLeq(r.cpu_load_avg, r.cpu_load_min)
          /\ ~FracLeq(r.cpu_load_max, r.cpu_load_avg)
          /\ r.memory_used_min < r.memory_used_avg
          /\ r.memory_used_avg < r.memory_used_max
          /\ r.memory_used_avg * Len(fnArgs) #
                 SumI64([i \in 1..Len(fnArgs) |-> fnResult[i].memory_used_avg])


\* a flush of this step that found the buffer empty: the flush timer fired, or
\* the channel closed, with nothing buffered
EmptyFlushInStep ==
    /\ buffer = <<>>
    /\ \E storeOk \in StoreOutcomes : WriterFlushTick(storeOk) \/ WriterClosed(storeOk)

\* save_snapshots was called with an empty batch in this step
EmptySaveInStep == \E storeOk \in StoreOutcomes : SaveSnapshotsEmpty(storeOk)

\* C21: a flush with an empty buffer returns before save_snapshots is called,
\* and save_snapshots on an empty batch returns Ok before it begins a
\* transaction: neither can fail on a failing store, and the raw table, the
\* system_info row and snapshots_saved_total are unchanged
C21_EmptyFlushNoOp ==
    [][/\ EmptyFlushInStep =>
              /\ lastFlush' = "empty"
              /\ commitFailed' = commitFailed
              /\ buffer' = <<>>
              /\ UNCHANGED <<rawTable, sysInfoTable, savedTotal>>
       /\ EmptySaveInStep =>
              /\ fnResult' = <<TRUE>>
              /\ UNCHANGED <<rawTable, sysInfoTable, savedTotal>>]_vars

\* an empty batch was saved over the system_info row of a previous run after
\* the final flush found the buffer empty
C21_Witness ==
    /\ fnPc = "saved_empty"
    /\ lastFlush = "empty"
    /\ writerPc = "done"
    /\ sysInfoTable = <<SystemInfoRow(PreviousSystemInfo)>>
    /\ savedTotal = 0

InfoFrame == [kind |-> "info", n |-> 0]

\* C22: on /ws/system the first frame of a connection is the info frame: a
\* connection that has not sent it has sent nothing, whatever was broadcast
\* since it subscribed, sends nothing but the info frame next, and when the
\* welcome send fails or times out the task ends without having received or
\* sent a snapshot
C22_InfoFrameFirst ==
    [][\A s \in Subs :
          /\ subLog'[s] # <<>> => subLog'[s][1] = InfoFrame
          /\ \A i \in 2..Len(subLog'[s]) : subLog'[s][i].kind \in {"snapshot", "lagged"}
          /\ subPc[s] = "welcome" =>
                /\ subLog[s] = <<>>
                /\ subLog'[s] \in {<<>>, <<InfoFrame>>}
                /\ subNext'[s] = subNext[s]
          /\ SubWelcome(s, FALSE) =>
                /\ subPc'[s] = "idle"
                /\ subLog'[s] = <<>>]_vars

\* a snapshot was broadcast while the second connection was waiting for its
\* welcome send, which has not been made; the first connection got the info
\* frame and then that snapshot
C22_Witness ==
    /\ subLog[1] = <<InfoFrame, [kind |-> "snapshot", n |-> 1]>>
    /\ subPc[2] = "welcome"
    /\ subNext[2] = 0
    /\ bcTail = 1
    /\ subLog[2] = <<>>

\* no raw row has been committed since run_one_tick was first called on its own
NoNewRawRows == savedTotal = fnArgs[3]

\* a step of a pass that runs at the clock of the repeated call
RepeatedPassStep ==
    /\ fnPc = "pass_again"
    /\ aggPc # "idle"
    /\ aggPc' # aggPc
    /\ aggNowMs = fnResult[3]

\* C23: when run_one_tick is called again at the same clock after a pass that
\* returned Ok, and no raw row was committed since that pass began, no step of
\* the second pass changes the raw table or the aggregated table, and it
\* returns Ok; a pass that finds the raw table empty returns Ok from its first
\* query, writing and deleting nothing
C23_AggregationIdempotent ==
    [][/\ RepeatedPassStep /\ NoNewRawRows' =>
              /\ rawTable' = fnResult[1]
              /\ aggTable' = fnResult[2]
              /\ aggPc' = "idle" => lastTick' = "ok"
       /\ aggPc = "a_min" /\ rawTable = <<>> /\ aggPc' # aggPc =>
              /\ aggPc' = "idle"
              /\ lastTick' = "ok"
              /\ UNCHANGED <<rawTable, aggTable>>]_vars

\* the first pass rolled a raw row up to a 5-min row, the second pass has
\* returned
C23_Witness ==
    /\ fnPc = "pass_again"
    /\ aggPc = "idle"
    /\ lastTick = "ok"
    /\ Len(fnArgs[1]) = 1
    /\ fnArgs[2] = <<>>
    /\ rawTable = <<>>
    /\ Len(aggTable) = 1
    /\ aggTable[1].resolution_seconds = RESOLUTION_5MIN

\* the aggregate of the group of id among the entries of out
GroupIn(out, id) ==
    LET HasId(c) == c.id = id IN SelectSeq(out, HasId)

CounterFields ==
    {"network_rx_bytes", "network_tx_bytes", "network_rx_packets", "network_tx_packets",
     "block_read_bytes", "block_write_bytes", "cpu_throttled_periods",
     "cpu_throttled_time_ns"}
FloatGaugeFields == {"cpu_percent", "cpu_kernel_percent", "cpu_user_percent"}
IntegerGaugeFields == {"memory_usage_bytes", "memory_limit_bytes"}

\* out holds, for every container id of the source lists, one entry that is
\* the aggregate of the observations of that id, taken in the order of the lists
GroupsAggregated(lists, out) ==
    /\ Len(out) = Cardinality(ContainerIds(lists))
    /\ \A id \in ContainerIds(lists) :
          LET src == ById(lists, id)
              n == Len(src)
              Total(f) == SumI64([i \in 1..n |-> src[i][f]])
              TotalF(f) == SumF64([i \in 1..n |-> src[i][f]]) IN
          /\ Len(GroupIn(out, id)) = 1
          /\ LET c == GroupIn(out, id)[1] IN
             /\ \A f \in CounterFields : c[f] = Total(f)
             /\ \A f \in FloatGaugeFields :
                   c[f].num * TotalF(f).den * n = TotalF(f).num * c[f].den
             /\ \A f \in IntegerGaugeFields :
                   c[f] * n <= Total(f) /\ Total(f) < (c[f] + 1) * n
             /\ c.state = src[n].state
             /\ c.id = src[1].id
             /\ c.name = src[1].name

\* C24: for every container id present in a bucket the aggregated
\* ContainerStats has each counter equal to the sum of the source values, each
\* gauge equal to their mean (f64 gauges the quotient of sum and count, u64
\* gauges that quotient truncated), state of the last source and id and name of
\* the first, on the raw -> 1-min path and, over the 1-min entries, on the
\* 1-min -> 5-min path
C24_ContainerGroupsAggregated ==
    /\ fnPc \in {"container_minutes", "container_five_minutes"} =>
          \A i \in 1..Len(fnArgs) : GroupsAggregated(fnArgs[i], fnResult.minutes[i])
    /\ fnPc = "container_five_minutes" =>
          GroupsAggregated(fnResult.minutes, fnResult.five_minutes)

\* two minute buckets rolled up, with two containers: the first container was
\* renamed and stopped in the second bucket, and its 5-min memory mean is the
\* truncated quotient of the sum 3 + 4
C24_Witness ==
    /\ fnPc = "container_five_minutes"
    /\ Len(fnResult.five_minutes) = 2
    /\ \E i \in 1..2 :
          /\ fnResult.five_minutes[i].id = 1
          /\ fnResult.five_minutes[i].name = 2
          /\ fnResult.five_minutes[i].state = "exited"
          /\ fnResult.five_minutes[i].memory_usage_bytes = 3
          /\ GroupIn(fnResult.minutes[1], 1)[1].memory_usage_bytes = 3
          /\ GroupIn(fnResult.minutes[2], 1)[1].memory_usage_bytes = 4

FracEq(a, b) == a.num * b.den = b.num * a.den

\* x is the least (greatest) of the column of rows, as fractions
LeastOf(x, rows, column) ==
    /\ \E i \in 1..Len(rows) : FracEq(x, rows[i][column])
    /\ \A i \in 1..Len(rows) : FracLeq(x, rows[i][column])
GreatestOf(x, rows, column) ==
    /\ \E i \in 1..Len(rows) : FracEq(x, rows[i][column])
    /\ \A i \in 1..Len(rows) : FracLeq(rows[i][column], x)

\* x is the mean of the column of rows: the quotient of sum and count, and for
\* an integer column that quotient truncated
MeanOf(x, rows, column) ==
    FracEq(FracDiv(SumF64([i \in 1..Len(rows) |-> rows[i][column]]), Len(rows)), x)
TruncatedMeanOf(x, rows, column) ==
    LET total == SumI64([i \in 1..Len(rows) |-> rows[i][column]]) IN
    x * Len(rows) <= total /\ total < (x + 1) * Len(rows)

IntegerColumn(rows, column) == [i \in 1..Len(rows) |-> [c \in {column} |-> Frac(rows[i][column])]]

\* C25: aggregate_aggregated_snapshots returns nothing for no row, and for 1-min
\* rows one row with created_at the bucket start and the resolution passed in,
\* the least source min, the greatest source max and the unweighted mean of the
\* source averages (truncated for memory); the five rows of the test give cpu
\* 30 / 9 / 51 and memory 300 / 90 / 510
C25_RollupOfOneMinRows ==
    fnPc = "aggregated_rows" =>
        LET rows == fnArgs.rows
            r == fnResult.value IN
        /\ fnResult.some <=> rows # <<>>
        /\ fnResult.some =>
              /\ r.created_at = fnArgs.bucket_start_ts
              /\ r.resolution_seconds = fnArgs.resolution_seconds
              /\ LeastOf(r.cpu_load_min, rows, "cpu_load_min")
              /\ GreatestOf(r.cpu_load_max, rows, "cpu_load_max")
              /\ MeanOf(r.cpu_load_avg, rows, "cpu_load_avg")
              /\ LeastOf(Frac(r.memory_used_min), IntegerColumn(rows, "memory_used_min"),
                         "memory_used_min")
              /\ GreatestOf(Frac(r.memory_used_max), IntegerColumn(rows, "memory_used_max"),
                            "memory_used_max")
              /\ TruncatedMeanOf(r.memory_used_avg, rows, "memory_used_avg")
        /\ rows = FiveOneMinRows =>
              /\ FracEq(r.cpu_load_avg, Frac(30))
              /\ FracEq(r.cpu_load_min, Frac(9))
              /\ FracEq(r.cpu_load_max, Frac(51))
              /\ r.memory_used_avg = 300
              /\ r.memory_used_min = 90
              /\ r.memory_used_max = 510

\* the five rows of the test rolled up into the bucket that starts at 300000
C25_Witness ==
    /\ fnPc = "aggregated_rows"
    /\ fnArgs.rows = FiveOneMinRows
    /\ fnArgs.bucket_start_ts = 300000
    /\ fnArgs.resolution_seconds = RESOLUTION_5MIN
    /\ fnResult.some
    /\ fnResult.value.created_at = 300000

\* C26: aggregate_snapshots returns nothing for no snapshot, and for raw
\* snapshots one row whose created_at is the bucket start passed in, whatever
\* the timestamps of the samples, whose resolution is the one passed in, and
\* whose cpu and memory columns are the mean (truncated for memory), the least
\* and the greatest of cpu.usage_percent and ram.used
C26_MinuteRowOfSnapshots ==
    fnPc = "aggregated_snapshots" =>
        LET rows == fnArgs.rows
            r == fnResult.value
            cpu == [i \in 1..Len(rows) |-> [cpu |-> Frac(rows[i].cpu)]] IN
        /\ fnResult.some <=> rows # <<>>
        /\ fnResult.some =>
              /\ r.created_at = fnArgs.bucket_start_ts
              /\ r.resolution_seconds = fnArgs.resolution_seconds
              /\ LeastOf(r.cpu_load_min, cpu, "cpu")
              /\ GreatestOf(r.cpu_load_max, cpu, "cpu")
              /\ MeanOf(r.cpu_load_avg, cpu, "cpu")
              /\ LeastOf(Frac(r.memory_used_min), IntegerColumn(rows, "mem"), "mem")
              /\ GreatestOf(Frac(r.memory_used_max), IntegerColumn(rows, "mem"), "mem")
              /\ TruncatedMeanOf(r.memory_used_avg, rows, "mem")

\* two samples taken after the bucket start, the later one first: the row is
\* dated at the bucket start and its memory average is truncated
C26_Witness ==
    /\ fnPc = "aggregated_snapshots"
    /\ fnArgs.rows = <<TimedSample(60001, 20, 201), TimedSample(60000, 10, 100)>>
    /\ fnArgs.bucket_start_ts = 300000
    /\ fnResult.some
    /\ fnResult.value.created_at = 300000
    /\ fnResult.value.memory_used_avg = 150
    /\ fnResult.value.cpu_load_avg = [num |-> 30, den |-> 2]

\* the first query of the tick returns in this step, without a store error,
\* and finds no raw row older than cutoff_raw
NoAgedRawInStep ==
    /\ aggPc = "a_min"
    /\ aggPc' # aggPc
    /\ lastTick' # "failed"
    /\ ~GetMinRawCreatedAtBefore(rawTable, CutoffRaw(aggNowMs)).some

\* C27: a tick that finds no raw row older than cutoff_raw skips phase A and
\* goes on to the retention prune of the raw table, then of the aggregated
\* table, before it returns
C27_NoAgedRawStillPrunes ==
    [][/\ NoAgedRawInStep => aggPc' = "prune_raw"
       /\ TickCompletes => aggPc = "prune_agg"]_vars

\* the 1-min row lies in a 5-min bucket that ends at or before cutoff_1min
InAgedMinuteBucket(row, cutoff_1min) ==
    /\ row.resolution_seconds = RESOLUTION_1MIN
    /\ BucketFloor(row.created_at, MS_PER_5_MINUTES) + MS_PER_5_MINUTES <= cutoff_1min

NoAgedMinuteRows(agg, cutoff_1min) ==
    \A i \in 1..Len(agg) : ~InAgedMinuteBucket(agg[i], cutoff_1min)

\* the tick deletes the 1-min rows of its current 5-min bucket in this step
MinuteRowsDeletedInStep == aggPc = "b_delete" /\ aggTable' # aggTable

\* the 5-min row of the bucket that starts at b
HasFiveMinuteRow(agg, b) ==
    \E i \in 1..Len(agg) :
        agg[i].resolution_seconds = RESOLUTION_5MIN /\ agg[i].created_at = b

TickFails == aggPc # "idle" /\ lastTick' = "failed"

\* the tick is in its raw -> 1-min loop
PhaseAPcs == {"a_fetch", "a_save", "a_delete"}

\* no raw row of a minute bucket that ends at or before cutoff_raw lies
\* before the loop's bucket_start
NothingAgedBehind(raw, bucket_start, cutoff_raw) ==
    \A i \in 1..Len(raw) :
        InAgedBucket(raw[i], cutoff_raw) => raw[i].timestamp >= bucket_start

\* the tick is in its 1-min -> 5-min loop
PhaseBPcs == {"b_fetch", "b_save", "b_delete"}

\* no 1-min row of a 5-min bucket that ends at or before cutoff_1min lies
\* before the loop's bucket_start
NothingAgedMinuteBehind(agg, bucket_start, cutoff_1min) ==
    \A i \in 1..Len(agg) :
        InAgedMinuteBucket(agg[i], cutoff_1min) => agg[i].created_at >= bucket_start

\* C29: a store failure ends the tick at that statement with the tables as
\* they are, the run loop is back at its select with the interval untouched
\* and only a new tick touches the aggregated table; a tick's first query
\* puts bucket_start at the bucket of the oldest raw row older than
\* cutoff_raw, the loop leaves no such row behind bucket_start unless one is
\* committed meanwhile, and it ends only with bucket_start past cutoff_raw;
\* likewise for the 1-min rows older than cutoff_1min in a tick that reaches
\* the second loop
C29_FailedTickAbortsAndNextResumes ==
    [][/\ TickFails =>
              /\ aggPc' = "idle"
              /\ RunLoopAtSelect(aggPc', vacuumRunning')
              /\ UNCHANGED <<rawTable, aggTable, nextAggAt, aggBucketStart>>
       /\ aggPc = "idle" =>
              /\ aggTable' = aggTable
              /\ aggPc' # "idle" => aggPc' = "a_min" /\ aggNowMs' = now
       /\ aggPc = "a_min" /\ aggPc' \in PhaseAPcs =>
              /\ NothingAgedBehind(rawTable', aggBucketStart', CutoffRaw(aggNowMs))
              /\ \E i \in 1..Len(rawTable') :
                     BucketFloor(rawTable'[i].timestamp, MS_PER_MINUTE) = aggBucketStart'
       /\ /\ aggPc \in PhaseAPcs
          /\ aggPc' \in PhaseAPcs \cup {"b_min"}
          /\ Len(rawTable') <= Len(rawTable)
          /\ NothingAgedBehind(rawTable, aggBucketStart, CutoffRaw(aggNowMs))
          => NothingAgedBehind(rawTable', aggBucketStart', CutoffRaw(aggNowMs))
       /\ aggPc \in PhaseAPcs \cup {"a_min"} /\ aggPc' = "b_min" =>
              aggBucketStart' + MS_PER_MINUTE > CutoffRaw(aggNowMs)
       /\ aggPc = "b_min" /\ aggPc' \in PhaseBPcs =>
              /\ NothingAgedMinuteBehind(aggTable', aggBucketStart', Cutoff1Min(aggNowMs))
              /\ \E i \in 1..Len(aggTable') :
                     /\ aggTable'[i].resolution_seconds = RESOLUTION_1MIN
                     /\ BucketFloor(aggTable'[i].created_at, MS_PER_5_MINUTES)
                            = aggBucketStart'
       /\ /\ aggPc \in PhaseBPcs
          /\ aggPc' \in PhaseBPcs \cup {"prune_raw"}
          /\ NothingAgedMinuteBehind(aggTable, aggBucketStart, Cutoff1Min(aggNowMs))
          => NothingAgedMinuteBehind(aggTable', aggBucketStart', Cutoff1Min(aggNowMs))
       /\ aggPc \in PhaseBPcs /\ aggPc' = "prune_raw" =>
              aggBucketStart' + MS_PER_5_MINUTES > Cutoff1Min(aggNowMs)]_vars

\* the tick of the third hour starts again at bucket 0: the tick before it
\* saved the bucket's 1-min row and failed on the delete of its raw row
C29_Witness ==
    /\ aggPc = "a_fetch"
    /\ aggNowMs = 3 * 3600 * 1000
    /\ aggBucketStart = 0
    /\ Len(rawTable) = 1
    /\ rawTable[1].timestamp = 0
    /\ \E i \in 1..Len(aggTable) :
           aggTable[i].resolution_seconds = RESOLUTION_1MIN /\ aggTable[i].created_at = 0

\* the writer takes a snapshot from the queue in this step, and with it the
\* buffer holds flush_rate snapshots or more
CountReachedInStep ==
    /\ writerPc = "select"
    /\ Len(queue') < Len(queue)
    /\ Len(buffer) + 1 >= config.flush_rate

\* flush_buffer ran on the buffer with the received snapshot: either the
\* whole buffer was committed and cleared, or the commit failed and the
\* buffer is kept
FlushAttemptedInStep ==
    \/ /\ buffer' = <<>>
       /\ savedTotal' = savedTotal + Len(buffer) + 1
       /\ Len(rawTable') = Len(rawTable) + Len(buffer) + 1
       /\ lastFlush' = "ok"
    \/ /\ buffer' = Append(buffer, Head(queue))
       /\ lastFlush' = "failed"
       /\ commitFailed'
       /\ UNCHANGED <<rawTable, savedTotal>>

\* C30: the step in which a received snapshot brings the buffer to flush_rate
\* or more is a flush attempt, so the next snapshot is received after it; and
\* whenever the writer waits at its select the buffer is shorter than
\* flush_rate, unless the latest flush failed (so always, while no commit has
\* failed)
C30_CountBasedFlush ==
    /\ [][CountReachedInStep => FlushAttemptedInStep]_vars
    /\ [](writerPc = "select" /\ Len(buffer) >= config.flush_rate =>
              lastFlush = "failed" /\ commitFailed)

\* with flush_rate = 2 three snapshots were received and both flushes that
\* the count set off failed: the buffer is kept and the writer is back at its
\* select
C30_Witness ==
    /\ config.flush_rate = 2
    /\ writerPc = "select"
    /\ Len(buffer) = 3
    /\ lastFlush = "failed"
    /\ savedTotal = 0

(***************************************************************************)
(* Claims about the deletes of the store.                                  *)
(***************************************************************************)
\* `after` is `before` without the rows at the positions in gone, the others
\* unchanged and in their order
RemovedExactly(before, after, gone) ==
    /\ Len(after) = Len(before) - Cardinality(gone)
    /\ \A i \in (1..Len(before)) \ gone :
           after[i - Cardinality({j \in gone : j < i})] = before[i]

InHalfOpen(ts, from_ts, to_ts) == from_ts <= ts /\ ts < to_ts

\* the positions a delete of the raw table has to remove
RawRowsInRange(raw, from_ts, to_ts) ==
    {i \in 1..Len(raw) : InHalfOpen(raw[i].timestamp, from_ts, to_ts)}

\* the positions a delete of the aggregated table has to remove
AggregatedRowsInRange(agg, from_ts, to_ts, resolutions) ==
    {i \in 1..Len(agg) : /\ InHalfOpen(agg[i].created_at, from_ts, to_ts)
                         /\ agg[i].resolution_seconds \in resolutions}

\* C31: delete_raw_range removes the raw rows with from <= created_at < to,
\* returns their number and leaves every other row as it is;
\* delete_aggregated_range does so for the rows of the given resolution; the
\* prunes remove the rows with created_at < now - retention; none touches
\* the other table
C31_DeletesRemoveExactlyTheRange ==
    /\ fnPc = "delete_raw_range" =>
           LET gone == RawRowsInRange(fnArgs.raw, fnResult.from_ts, fnResult.to_ts) IN
           /\ RemovedExactly(fnArgs.raw, fnResult.raw, gone)
           /\ fnResult.deleted = Cardinality(gone)
           /\ fnResult.agg = fnArgs.agg
    /\ fnPc = "delete_aggregated_range" =>
           LET gone == AggregatedRowsInRange(fnArgs.agg, fnResult.from_ts, fnResult.to_ts,
                                             {fnResult.resolution_seconds}) IN
           /\ RemovedExactly(fnArgs.agg, fnResult.agg, gone)
           /\ fnResult.deleted = Cardinality(gone)
           /\ fnResult.raw = fnArgs.raw
    /\ fnPc = "prune_old_data" =>
           /\ RemovedExactly(fnArgs.raw, fnResult.raw,
                             {i \in 1..Len(fnArgs.raw) :
                                 fnArgs.raw[i].timestamp < fnResult.to_ts})
           /\ fnResult.agg = fnArgs.agg
    /\ fnPc = "prune_aggregated_old_data" =>
           LET gone == {i \in 1..Len(fnArgs.agg) :
                           fnArgs.agg[i].created_at < fnResult.to_ts} IN
           /\ RemovedExactly(fnArgs.agg, fnResult.agg, gone)
           /\ fnResult.deleted = Cardinality(gone)
           /\ fnResult.raw = fnArgs.raw

\* delete_raw_range(2000, 3000) on rows at 2000 and 3000 removed the first
\* and kept the row on the upper bound
C31_Witness ==
    /\ fnPc = "delete_raw_range"
    /\ fnResult.from_ts = 2000
    /\ fnResult.to_ts = 3000
    /\ Len(fnArgs.raw) = 2
    /\ fnArgs.raw[1].timestamp = 2000
    /\ fnArgs.raw[2].timestamp = 3000
    /\ fnResult.deleted = 1
    /\ fnResult.raw = <<fnArgs.raw[2]>>

(***************************************************************************)
(* Claims about the downsampling of a history query's raw part.            *)
(***************************************************************************)
ResolutionBucket(ts, res_ms) == (ts \div res_ms) * res_ms

\* C32: for resolution > 1 the downsampled raw part holds, for every
\* resolution bucket with a sample, the last snapshot of that bucket in the
\* ascending input, as it was, and nothing else; its entries are in strictly
\* ascending order of bucket
C32_DownsampleKeepsLastOfBucket ==
    fnPc = "downsampled" =>
        LET res_ms == fnArgs.resolution_secs * 1000
            in == fnArgs.raw
            out == fnResult
        IN  /\ \A i \in 1..Len(in) :
                   (\A j \in (i + 1)..Len(in) :
                        ResolutionBucket(in[j].timestamp, res_ms)
                            # ResolutionBucket(in[i].timestamp, res_ms))
                   <=> (\E k \in 1..Len(out) : out[k] = in[i])
            /\ \A k \in 1..Len(out) : \E i \in 1..Len(in) : out[k] = in[i]
            /\ \A k \in 1..(Len(out) - 1) :
                   ResolutionBucket(out[k].timestamp, res_ms)
                       < ResolutionBucket(out[k + 1].timestamp, res_ms)

\* at 2 s, of the snapshots at 0, 1999 and 2000 the ones at 1999 and 2000
\* are kept
C32_Witness ==
    /\ fnPc = "downsampled"
    /\ fnArgs.resolution_secs = 2
    /\ Len(fnArgs.raw) = 3
    /\ fnArgs.raw[1].timestamp = 0
    /\ fnArgs.raw[2].timestamp = 1999
    /\ fnArgs.raw[3].timestamp = 2000
    /\ fnResult = <<fnArgs.raw[2], fnArgs.raw[3]>>

(***************************************************************************)
(* Claims about the order of an aggregated row's container list.           *)
(***************************************************************************)
SortedByName(out) == \A i \in 1..(Len(out) - 1) : out[i].name <= out[i + 1].name

\* out is what every aggregation of lists produces, whatever the order in
\* which the map yields its groups
SameForEveryOrder(lists, out) ==
    \A order \in IterationOrders(ContainerIds(lists)) :
        out = AggregateContainers(lists, order)

\* C33: the container list of an aggregated row is sorted by name and is the
\* same sequence for every aggregation of the same source rows, also when
\* containers with different ids carry the same name
C33_ContainerListDeterministic ==
    /\ fnPc \in {"container_minutes", "container_five_minutes"} =>
          \A i \in 1..Len(fnArgs) :
              /\ SortedByName(fnResult.minutes[i])
              /\ SameForEveryOrder(fnArgs[i], fnResult.minutes[i])
    /\ fnPc = "container_five_minutes" =>
          /\ SortedByName(fnResult.five_minutes)
          /\ SameForEveryOrder(fnResult.minutes, fnResult.five_minutes)

(***************************************************************************)
(* Claims about the rows of the aggregated table.                          *)
(***************************************************************************)
\* C34: whatever ticks have run, and wherever a store error has ended them,
\* the aggregated table holds at most one row for a (created_at,
\* resolution_seconds)
C34_OneRowPerBucketAndResolution ==
    \A i, j \in 1..Len(aggTable) :
        /\ aggTable[i].created_at = aggTable[j].created_at
        /\ aggTable[i].resolution_seconds = aggTable[j].resolution_seconds
        => i = j

(***************************************************************************)
(* Claims about the raw rows an aggregation pass deletes.                  *)
(***************************************************************************)
\* the raw rows this step removes from the table
RawRowsRemovedInStep ==
    {rawTable[i] : i \in {k \in 1..Len(rawTable) :
                              \A j \in 1..Len(rawTable') : rawTable'[j] # rawTable[k]}}

\* the row is one of the samples of a 1-min row persisted for the bucket
InPersistedMinute(row, agg, bucket_start) ==
    \E i \in 1..Len(agg) :
        /\ agg[i].resolution_seconds = RESOLUTION_1MIN
        /\ agg[i].created_at = bucket_start
        /\ \E k \in 1..Len(agg[i].samples) : agg[i].samples[k] = row.id

\* C35: every raw row that delete_raw_range removes in a tick was among the
\* rows the tick fetched for that bucket and is a sample of the 1-min row
\* persisted for it, however the writer's commits and the worker's prune
\* interleave with the pass
C35_DeletedRawRowsWereAggregated ==
    [][aggPc = "a_delete" =>
          \A row \in RawRowsRemovedInStep :
              /\ \E k \in 1..Len(aggFetched) : aggFetched[k].id = row.id
              /\ InPersistedMinute(row, aggTable, aggBucketStart)]_vars

(***************************************************************************)
(* Claims about the container streams.                                     *)
(***************************************************************************)
\* C36: every entry of active_streams refers to a stream task that has not
\* finished, in every interleaving of the reconciliation with the tasks
C36_RegistryEntriesLive ==
    \A id \in Containers :
        activeStreams[id] # 0 => streamTasks[activeStreams[id]].pc # "done"

\* the task puts an entry into live_stats that was not there
InsertsInStep(t) ==
    /\ streamTasks[t].pc = "item"
    /\ streamTasks'[t].pc = "next"
    /\ streamTasks[t].id \notin liveStats

\* the reconciliation that removed the container has yet to take its entry
\* out of live_stats
LiveRemovalPending(id) == recPc = "registered" /\ id \in recLocals.to_remove

\* C37: a stream task that a reconciliation has aborted puts no entry into
\* live_stats after the reconciliation removed the container's entry
C37_AbortedTaskDoesNotReinsert ==
    [][\A t \in 1..Len(streamTasks) :
          InsertsInStep(t) /\ streamTasks[t].aborted
              => LiveRemovalPending(streamTasks[t].id)]_vars

(***************************************************************************)
(* Claims about the aggregated part of a history answer.                   *)
(***************************************************************************)
\* the aggregated row lies in the range get_history reads from the
\* aggregated table
InAggregatedRange(row, req) ==
    /\ row.created_at >= req.from_ts
    /\ row.created_at < Min(req.to_ts, req.raw_cutoff_ts)

\* the answer has an entry made from the row
Contributes(row, out) == \E i \in 1..Len(out) : out[i] = AggregatedToSnapshot(row)

\* C38: a history answer has an entry for every aggregated row the store
\* holds in the aggregated range, whatever the row's resolution and whatever
\* the resolution asked for
C38_EveryAggregatedRowReturned ==
    [][(histPc = "agg" /\ histPc' = "responded" /\ histStatus' = 200
            /\ ReadsAggregated(histReq))
        => \A i \in 1..Len(aggTable) :
              InAggregatedRange(aggTable[i], histReq) => Contributes(aggTable[i], histOut')]_vars

(***************************************************************************)
(* Claims about the writer's rows at its exit.                             *)
(***************************************************************************)
\* the rows of the raw table, in insertion order, are the snapshots of log,
\* each once
RowsAreExactly(raw, log) ==
    /\ Len(raw) = Len(log)
    /\ \A i \in 1..Len(log) : raw[i].id = log[i]
    /\ \A i, j \in 1..Len(raw) : i # j => raw[i].id # raw[j].id

\* C39: when the writer has ended and its last flush did not fail, the raw
\* rows in insertion order are the enqueued snapshots in their order, none
\* lost, none twice, whatever flushes failed before
C39_ExitWithEveryEnqueuedRowOnce ==
    (writerPc = "done" /\ lastFlush # "failed") => RowsAreExactly(rawTable, enqLog)

C39_Witness ==
    /\ writerPc = "done"
    /\ lastFlush = "ok"
    /\ commitFailed
    /\ config.flush_rate = 2
    /\ Len(enqLog) = MaxSnapshotsStore
    /\ RowsAreExactly(rawTable, enqLog)

(***************************************************************************)
(* Claims about the order of the two roll-ups.                             *)
(***************************************************************************)
\* the row the step adds to the aggregated table
RowAddedInStep == aggTable'[Len(aggTable')]

AddsRowInStep(resolution_seconds) ==
    /\ Len(aggTable') = Len(aggTable) + 1
    /\ RowAddedInStep.resolution_seconds = resolution_seconds

FiveMinuteFloor(ts) == (ts \div MS_PER_5_MINUTES) * MS_PER_5_MINUTES

\* C40: when a resolution-300 row is written for a window the raw table
\* holds no row of that window, and no resolution-60 row is written into a
\* window that has a resolution-300 row
C40_RollupOnlyOfFinishedWindows ==
    [][/\ AddsRowInStep(RESOLUTION_5MIN) =>
            \A i \in 1..Len(rawTable) :
                FiveMinuteFloor(rawTable[i].timestamp) # RowAddedInStep.created_at
       /\ AddsRowInStep(RESOLUTION_1MIN) =>
            \A i \in 1..Len(aggTable) :
                aggTable[i].resolution_seconds = RESOLUTION_5MIN =>
                    aggTable[i].created_at # FiveMinuteFloor(RowAddedInStep.created_at)]_vars
====
